---------------------------- MODULE Spec2Model ----------------------------
(***************************************************************************)
(* A model of pyonstar's session handling: GMAuth (src/onstar/auth.py),    *)
(* which turns a Microsoft B2C login into a GM API token and caches both   *)
(* on disk, and the token handling of the OnStar client                    *)
(* (src/onstar/client.py).  PollSpec is the request chain of one client    *)
(* that holds a fresh token: _api_request with its duplicate-request       *)
(* retries and its status polling.  LoginSpec is one authenticate() call   *)
(* that has to log in, with the data of each step of the login flow: the   *)
(* endpoints, the PKCE pair, the csrf and transaction ids, the code.       *)
(* CatalogSpec is the public methods of one client around the command      *)
(* catalog: get_account_vehicles, execute_command and diagnostics.         *)
(* ConcurrentSpec is two coroutines calling public methods of one client  *)
(* side by side on its event loop.                                         *)
(*                                                                         *)
(* Python dicts are records: a key of the dict is a field of the record,   *)
(* and dict.get(k, d) is Get.  Optional values (None, a file that does not *)
(* exist) are sequences of length 0 or 1.  Strings whose letter case       *)
(* matters are sequences of one-letter strings.  Every network request is  *)
(* a step of its own whose response the server chooses.                    *)
(***************************************************************************)
EXTENDS Integers, Sequences, FiniteSets, TLC

\* ------------------------------------------------------------------ bounds

\* The clock runs from 0 to MaxTime seconds.
MaxTime == 1
\* Nested re-authentications the interpreter's recursion limit admits.
MaxReauth == 2
\* A polling chain's clock runs from 0 to MaxClock seconds.
MaxClock == 5
\* Nested _api_request calls the interpreter's recursion limit admits.
MaxDepth == 3

\* ------------------------------------------------------- values and inputs

\* The safety window of auth.py, written 5 * 60 there.
AUTH_WINDOW == 5 * 60

\* client.py's name for its own window.
TOKEN_REFRESH_WINDOW_SECONDS == 5 * 60

\* str.upper() on one letter.
UpperChar(c) ==
    CASE c = "a" -> "A"
      [] c = "b" -> "B"
      [] c = "v" -> "V"
      [] c = "w" -> "W"
      [] OTHER -> c

\* str.upper().
upper(s) == [i \in 1..Len(s) |-> UpperChar(s[i])]

\* dict.get(k, d).
Get(d, k, dflt) == IF k \in DOMAIN d THEN d[k] ELSE dflt

\* The account names a configuration may hold.
Usernames == {<<"a">>, <<"A">>}

\* The expiry offsets a token endpoint hands out, around the window.
ExpiresIns == {AUTH_WINDOW, AUTH_WINDOW + 1}

\* An access token that jwt.decode rejects.
BadJwt == [jwt_error |-> TRUE]

\* A file that is not JSON of the expected shape.
Garbage == [garbage |-> TRUE]

\* `vehs` claims: sequences of VINs (the permission field is never read).
VehsValues == {<<>>, << <<"v">> >>, << <<"w">> >>}

\* Payloads of vendor access tokens; the vehs key may be absent.
GmPayloads ==
    [uid : {<<"A">>}, vehs : VehsValues] \cup [uid : {<<"A">>}]

\* Payloads of identity access tokens: name and email claims.
MsPayloads ==
    { [name |-> <<"A">>, email |-> <<>>],
      [name |-> <<"b">>, email |-> <<"a">>] }

\* What the vendor token endpoint may answer to a token exchange.
GmResponses ==
    { [ok |-> FALSE] }
    \cup [ok : {TRUE}, access_token : GmPayloads \cup {BadJwt}, expires_in : ExpiresIns]

\* What the identity token endpoint may answer (code grant or refresh grant):
\* expires_in 0 stands for a missing expires_in, refresh_token "" for none.
MsResponses ==
    { [ok |-> FALSE] }
    \cup [ok : {TRUE}, access_token : MsPayloads,
          refresh_token : {"rt"}, expires_in : {0, AUTH_WINDOW + 1}]
    \cup [ok : {TRUE}, access_token : MsPayloads,
          refresh_token : {""}, expires_in : {AUTH_WINDOW + 1}]

\* Vendor token files a process may find on disk when it starts.
InitGmFiles ==
    { <<>>, <<Garbage>> }
    \cup { <<[access_token |-> [uid |-> u, vehs |-> << <<"v">> >>], expires_at |-> e]>> :
             u \in {<<"a">>, <<"b">>}, e \in {AUTH_WINDOW, AUTH_WINDOW + 1} }
    \cup { <<[access_token |-> [uid |-> <<"A">>, vehs |-> << <<"v">> >>]]>>,
           <<[access_token |-> BadJwt, expires_at |-> AUTH_WINDOW + 1]>>,
           <<[access_token |-> [vehs |-> << <<"v">> >>], expires_at |-> AUTH_WINDOW + 1]>>,
           <<[access_token |-> [uid |-> <<"A">>, vehs |-> <<>>], expires_at |-> AUTH_WINDOW + 1]>> }

\* Identity token files a process may find on disk when it starts.
InitMsFiles ==
    { <<>>, <<Garbage>> }
    \cup { <<[access_token |-> p, refresh_token |-> "rt", expires_at |-> e]>> :
             p \in MsPayloads, e \in {AUTH_WINDOW, AUTH_WINDOW + 1} }
    \cup { <<[access_token |-> [email |-> <<"a">>], refresh_token |-> "", expires_at |-> AUTH_WINDOW + 1]>>,
           <<[access_token |-> BadJwt, refresh_token |-> "rt", expires_at |-> AUTH_WINDOW + 1]>> }


\* The hard-coded OIDC endpoints, and the ones a discovery document names.
FALLBACK_AUTHORIZATION_ENDPOINT == "fallback_authorization_endpoint"
FALLBACK_TOKEN_ENDPOINT == "fallback_token_endpoint"
DiscoveredAuthorizationEndpoint == "discovered_authorization_endpoint"
DiscoveredTokenEndpoint == "discovered_token_endpoint"

\* ----------------------------------------------------------- pure helpers

\* Mutant of _token_is_valid: the boundary counts as valid.
_token_is_valid_inclusive(token, t) == Get(token, "expires_at", 0) >= t + 5 * 60

\* GMAuth._token_is_valid at clock reading t.
_token_is_valid(token, t) == Get(token, "expires_at", 0) > t + 5 * 60

\* jwt.decode(x["access_token"]) raises: no such key, or not a JWT.
DecodeRaises(x) ==
    \/ "access_token" \notin DOMAIN x
    \/ "jwt_error" \in DOMAIN x["access_token"]

\* Mutant of _load_current_gm_api_token: the uid is not compared.
_load_current_gm_api_token_any_user(file, user, t) ==
    IF file = <<>> THEN <<>>
    ELSE LET gm_token == file[1] IN
         IF DecodeRaises(gm_token) THEN <<>>
         ELSE IF _token_is_valid(gm_token, t) THEN <<gm_token>>
         ELSE <<>>

\* GMAuth._load_current_gm_api_token: the new in-memory token.
_load_current_gm_api_token(file, user, t) ==
    IF file = <<>> THEN <<>>
    ELSE LET gm_token == file[1] IN
         IF DecodeRaises(gm_token) THEN <<>>
         ELSE IF upper(Get(gm_token["access_token"], "uid", <<>>)) # upper(user) THEN <<>>
         ELSE IF _token_is_valid(gm_token, t) THEN <<gm_token>>
         ELSE <<>>

\* Mutant of email_or_name: the claims are not upper-cased.
email_or_name_as_written(decoded) ==
    LET n == Get(decoded, "name", <<>>) IN
    IF n # <<>> THEN n ELSE Get(decoded, "email", <<>>)

\* The identity _load_ms_token compares: name.upper() or email.upper().
email_or_name(decoded) ==
    LET n == upper(Get(decoded, "name", <<>>)) IN
    IF n # <<>> THEN n ELSE upper(Get(decoded, "email", <<>>))

\* Mutant of _load_ms_token: what json.loads and jwt.decode raise is not
\* caught.
_load_ms_token_uncaught(file, user, t) ==
    IF file = <<>> THEN [kind |-> "false"]
    ELSE LET stored == file[1] IN
         IF DecodeRaises(stored) THEN [kind |-> "raise"]
         ELSE IF email_or_name(stored["access_token"]) # upper(user) THEN [kind |-> "false"]
         ELSE IF Get(stored, "expires_at", 0) > t + 5 * 60
              THEN [kind |-> "stored", token |-> stored]
         ELSE IF Get(stored, "refresh_token", "") # ""
              THEN [kind |-> "refresh", token |-> stored]
         ELSE [kind |-> "false"]

\* GMAuth._load_ms_token up to its first network request: "stored" returns
\* the stored token set, "refresh" goes on to the refresh grant, "false"
\* returns False.
_load_ms_token(file, user, t) ==
    IF file = <<>> THEN [kind |-> "false"]
    ELSE LET stored == file[1] IN
         IF DecodeRaises(stored) THEN [kind |-> "false"]
         ELSE IF email_or_name(stored["access_token"]) # upper(user) THEN [kind |-> "false"]
         ELSE IF Get(stored, "expires_at", 0) > t + 5 * 60
              THEN [kind |-> "stored", token |-> stored]
         ELSE IF Get(stored, "refresh_token", "") # ""
              THEN [kind |-> "refresh", token |-> stored]
         ELSE [kind |-> "false"]

\* The TokenSet _fetch_ms_token and _refresh_ms_token build from a token
\* response; rt is the refresh token it ends up with.
MakeTokenSet(resp, rt, t) ==
    IF resp.expires_in # 0
    THEN [access_token |-> resp.access_token, refresh_token |-> rt,
          expires_at |-> t + resp.expires_in]
    ELSE [access_token |-> resp.access_token, refresh_token |-> rt]

\* OnStar._needs_token_refresh at clock reading t.
_needs_token_refresh(token, t) ==
    IF token = <<>> THEN TRUE
    ELSE Get(token[1], "expires_at", 0) < t + TOKEN_REFRESH_WINDOW_SECONDS

\* The VIN the client is configured with, and OnStar._vin: vin.upper().
ConfigVin == <<"v">>
_vin == upper(ConfigVin)

\* OnStar._validate_vin_authorization: "ok", or the error it raises.
_validate_vin_authorization(payload) ==
    IF payload = <<>> \/ DOMAIN payload[1] = {} THEN "payload_error"
    ELSE IF "vehs" \notin DOMAIN payload[1] THEN "key_error"
    ELSE LET vehs == payload[1]["vehs"]
             vins == {upper(vehs[i]) : i \in 1..Len(vehs)}
         IN IF _vin \notin vins THEN "vin_error" ELSE "ok"

\* GMAuth._save_tokens: what the vendor token file holds afterwards.
SavedGmFile(cur, file) == IF cur # <<>> THEN cur ELSE file

\* GMAuth._save_tokens: the files it writes.
SavedFiles(cur) == IF cur # <<>> THEN {"ms", "gm"} ELSE {"ms"}

\* ------------------------------------------------ requests and responses

\* The default of _api_request's retry_delay, in seconds.
retry_delay == 2

\* Offsets of the host's local time from UTC, in seconds.
UtcOffsets == {0 - 3600, 0, 3600}

\* `"Duplicate vehicle request" in description`.
IsDuplicateText(description) ==
    description \in {"Duplicate vehicle request", "Duplicate vehicle request in progress"}

\* Bodies of error responses: <<>> is a body that is not JSON.
ErrorBodies ==
    { <<>>,
      <<[message |-> "error"]>>,
      <<[error |-> [code |-> "ONS-300", description |-> "Duplicate vehicle request"]]>>,
      <<[error |-> [code |-> "ONS-300", description |-> "Vehicle busy"]]>>,
      <<[error |-> [code |-> "ONS-301", description |-> "Duplicate vehicle request in progress"]]>> }

\* HTTP error responses.
ErrorResponses == [status_code : {404, 500}, json : ErrorBodies]

\* A requestTime: a well-formed string naming the UTC second utc, or a
\* string strptime rejects.
WellFormed(utc) == [utc |-> utc]
Malformed == [malformed |-> TRUE]

\* The requestTime values a response may carry at clock t under timeout T:
\* exactly T seconds old, one second younger, or not in the format.
RequestTimes(t, T) == {WellFormed(t - T), WellFormed(t - T + 1), Malformed}

\* One commandResponse envelope; url, requestTime and body may be absent.
Envelope(status, type, url, request_time, body) ==
    [status |-> status, type |-> type]
        @@ (IF url THEN [url |-> "status_url"] ELSE <<>>)
        @@ (IF request_time # <<>> THEN [requestTime |-> request_time[1]] ELSE <<>>)
        @@ (IF body THEN [body |-> "data"] ELSE <<>>)

\* The commandResponse envelopes a response may carry at clock t; only a
\* successful one may have a body.
CommandResponses(t, T) ==
    { Envelope(st, ty, url, rt, body) :
        st \in {"success", "failure", "inProgress", "pending"},
        ty \in {"connect", "lockDoor"},
        url \in BOOLEAN,
        rt \in {<<>>} \cup {<<x>> : x \in RequestTimes(t, T)},
        body \in {FALSE} }
    \cup
    { Envelope("success", ty, url, rt, TRUE) :
        ty \in {"connect", "lockDoor"},
        url \in BOOLEAN,
        rt \in {<<>>} \cup {<<x>> : x \in RequestTimes(t, T)} }

\* HTTP 200 responses: a body that is not JSON, a JSON list, a dict without
\* commandResponse, with an empty one, or with an envelope.
OkResponses(t, T) ==
    { [status_code |-> 200, json |-> <<>>],
      [status_code |-> 200, json |-> <<[list |-> <<"item">>]>>],
      [status_code |-> 200, json |-> <<[vehicles |-> "data"]>>],
      [status_code |-> 200, json |-> <<[commandResponse |-> <<>>]>>] }
    \cup { [status_code |-> 200, json |-> <<[commandResponse |-> cr]>>] :
             cr \in CommandResponses(t, T) }

\* isinstance(x, dict): a JSON list is written [list |-> its items].
IsDict(x) == "list" \notin DOMAIN x

\* The test of lines 323-324 on a response whose body is JSON.
IsDuplicateRequest(error_body) ==
    LET error == Get(error_body, "error", <<>>) IN
    /\ Get(error, "code", "") = "ONS-300"
    /\ IsDuplicateText(Get(error, "description", ""))

\* time.mktime(time.strptime(request_time, "%Y-%m-%dT%H:%M:%S.%fZ")): the
\* fields of the string are read as local time of a host at offset from UTC.
request_timestamp(request_time, offset) == request_time.utc - offset

\* The exceptions _api_request raises.
HTTPStatusError(r) == [type |-> "HTTPStatusError", status_code |-> r.status_code]
JSONDecodeError == [type |-> "JSONDecodeError"]
CommandFailed(response_data) == [type |-> "RuntimeError", message |-> "Command failed", data |-> response_data]
CommandTimedOut(T) == [type |-> "RuntimeError", message |-> "Command timed out", seconds |-> T]
StrptimeError == [type |-> "ValueError"]
RecursionError == [type |-> "RecursionError"]

\* What arrives at the caller when err leaves the innermost call and climbs
\* through the suspended calls st, innermost last: a call that awaits a
\* retry swallows it (line 336) and raises for its own 500 response
\* (line 339), a call that awaits a poll lets it pass.
RECURSIVE Propagate(_, _)
Propagate(st, err) ==
    IF st = <<>> THEN err
    ELSE LET outer == SubSeq(st, 1, Len(st) - 1) IN
         IF st[Len(st)] = "retry"
         THEN Propagate(outer, [type |-> "HTTPStatusError", status_code |-> 500])
         ELSE Propagate(outer, err)

\* ------------------------------------------------------------------ state

VARIABLES
    username,            \* config["username"]
    now,                 \* int(time.time())
    ms_file,             \* microsoft_tokens.json: <<>> or <<content>>
    gm_file,             \* gm_tokens.json: <<>> or <<content>>
    _current_gm_token,   \* GMAuth._current_gm_token: <<>> (None) or <<token>>
    pc,                  \* where authenticate() is
    token_set,           \* the token_set local of the running call
    depth,               \* how many times authenticate() has re-entered itself
    result,              \* what the last authenticate() returned
    net,                 \* kinds of request sent since the call began
    wrote,               \* files written since the call began
    got,                 \* identity token sets obtained since the call began
    call_cur,            \* _current_gm_token when the call began
    renamed,             \* files renamed to their .old name since the call began
    prev_ok,             \* what the last successful call on this instance returned
    _token_resp,         \* OnStar._token_resp: <<>> (None) or <<token>>
    _decoded_payload,    \* OnStar._decoded_payload: <<>> (None) or <<payload>>
    cpc,                 \* where the client's _api_request is
    last                 \* how the client's last _api_request went

VARIABLES
    _request_polling_timeout_seconds,   \* OnStar field of that name
    _request_polling_interval_seconds,  \* OnStar field of that name
    _check_request_status,              \* OnStar field of that name
    utc_offset,          \* the host's local time minus UTC, in seconds
    ppc,                 \* where the outermost _api_request call is
    frame,               \* the arguments of the innermost _api_request call
    stack,               \* the suspended outer calls: what each one awaits
    response,            \* the last HTTP response: <<>> or <<response>>
    outcome,             \* what the outermost call returned or raised
    sends,               \* HTTP requests sent since the outermost call began
    gets,                \* status-poll GETs among them
    attempts,            \* times the current request has been sent
    poll_sleeps,         \* polling sleeps since the outermost call began
    retry_sleeps,        \* retry sleeps since the outermost call began
    last_get_at,         \* when the last status-poll GET went out: <<>> or <<t>>
    command_time,        \* the first well-formed requestTime seen: <<>> or <<t>>
    clean                \* so far only 200 responses, non-terminal and in time

VARIABLES
    _token_endpoint,     \* GMAuth._token_endpoint
    code_verifier,       \* _do_full_auth_sequence's code_verifier: <<>> or <<text>>
    csrf,                \* the csrf the running login flow holds: <<>> or <<text>>
    trans_id,            \* the trans_id the running login flow holds: <<>> or <<text>>
    steps,               \* steps of the login flow of this call: requests sent, save made
    received             \* the responses to those requests, in the same order

VARIABLES
    _available_commands, \* OnStar._available_commands: command name -> command entry
    _vehicle_data,       \* OnStar._vehicle_data: <<>> (None) or <<vehicle entry>>
    op,                  \* the public method called last: its arguments and how far it is
    sent,                \* what that call handed to _api_request: <<>> or <<request>>
    fetched              \* whether get_account_vehicles() has been called

VARIABLES
    tasks                \* the coroutines running public methods on the one client

configVars == <<_request_polling_timeout_seconds, _request_polling_interval_seconds,
                _check_request_status, utc_offset>>
chainVars == <<ppc, frame, stack, response, outcome>>
countVars == <<sends, gets, attempts, poll_sleeps, retry_sleeps, last_get_at,
               command_time, clean>>
pollVars == <<configVars, chainVars, countVars>>

authVars == <<username, tasks, now, ms_file, gm_file, _current_gm_token, pc, token_set, depth, result>>
ghostVars == <<net, wrote, got, call_cur, prev_ok, renamed, steps, received>>
flowVars == <<_token_endpoint, code_verifier, csrf, trans_id>>
catalogVars == <<_available_commands, _vehicle_data, op, sent, fetched>>
clientVars == <<_token_resp, _decoded_payload, cpc, last, pollVars, catalogVars>>
vars == <<authVars, ghostVars, flowVars, clientVars>>

\* The default arguments of _api_request.
DefaultFrame ==
    [method |-> "GET", current_retry |-> 0, max_retries |-> 1,
     check_request_status |-> <<>>, is_status_check |-> FALSE,
     poll_count |-> 0, max_polls |-> <<>>]

\* A client with the constructor's defaults on which no request has run.
NoChain ==
    /\ _request_polling_timeout_seconds = 90
    /\ _request_polling_interval_seconds = 6
    /\ _check_request_status = TRUE
    /\ utc_offset = 0
    /\ ppc = "idle"
    /\ frame = DefaultFrame
    /\ stack = <<>>
    /\ response = <<>>
    /\ outcome = <<>>
    /\ sends = 0
    /\ gets = 0
    /\ attempts = 0
    /\ poll_sleeps = 0
    /\ retry_sleeps = 0
    /\ last_get_at = <<>>
    /\ command_time = <<>>
    /\ clean = TRUE

\* No public method has been called.
NoCall ==
    [method |-> "none", state |-> "none", command_name |-> "none", options |-> <<>>,
     original_timeout |-> 0]

\* A client as __init__ leaves it (lines 172-173) before any public method
\* is called.
NoCatalog ==
    /\ _available_commands = <<>>
    /\ _vehicle_data = <<>>
    /\ op = NoCall
    /\ sent = <<>>
    /\ fetched = FALSE

\* A GMAuth as __init__ leaves it (line 176), outside any login flow.
NoFlow ==
    /\ _token_endpoint = FALLBACK_TOKEN_ENDPOINT
    /\ code_verifier = <<>>
    /\ csrf = <<>>
    /\ trans_id = <<>>

\* The coroutines that may run public methods of one client side by side
\* on its event loop.
Tasks == {1, 2}

\* No coroutine has called a public method.
NoTask == [method |-> "none", state |-> "none", original_timeout |-> 0]
NoTasks == [t \in Tasks |-> NoTask]

\* No authenticate() call is running.
AtRest == pc \in {"idle", "done", "error"}

Init ==
    /\ username \in Usernames
    /\ tasks = NoTasks
    /\ now = 0
    /\ ms_file \in InitMsFiles
    /\ gm_file \in InitGmFiles
    /\ _current_gm_token = _load_current_gm_api_token(gm_file, username, now)
    /\ pc = "idle"
    /\ token_set = <<>>
    /\ depth = 0
    /\ result = <<>>
    /\ net = {}
    /\ wrote = {}
    /\ renamed = {}
    /\ steps = <<>>
    /\ received = <<>>
    /\ got = {}
    /\ call_cur = <<>>
    /\ prev_ok = <<>>
    /\ _token_resp = <<>>
    /\ _decoded_payload = <<>>
    /\ cpc = "idle"
    /\ last = "none"
    /\ NoFlow
    /\ NoChain
    /\ NoCatalog

\* ---------------------------------------------------------------- actions

\* A second passes.
Tick ==
    /\ now < MaxTime
    /\ now' = now + 1
    /\ UNCHANGED <<username, tasks, ms_file, gm_file, _current_gm_token, pc, token_set, depth, result>>
    /\ UNCHANGED <<ghostVars, clientVars, flowVars>>

\* GMAuth.__init__: a new instance over the same token directory.
GMAuth_init ==
    /\ AtRest
    /\ cpc = "idle"
    /\ _current_gm_token' = _load_current_gm_api_token(gm_file, username, now)
    /\ pc' = "idle"
    /\ result' = <<>>
    /\ token_set' = <<>>
    /\ depth' = 0
    /\ net' = {}
    /\ wrote' = {}
    /\ renamed' = {}
    /\ steps' = <<>>
    /\ received' = <<>>
    /\ got' = {}
    /\ call_cur' = <<>>
    /\ prev_ok' = <<>>
    /\ _token_endpoint' = FALLBACK_TOKEN_ENDPOINT
    /\ UNCHANGED <<username, tasks, now, ms_file, gm_file, clientVars, code_verifier, csrf, trans_id>>

\* A caller invokes authenticate().
Call ==
    /\ AtRest
    /\ cpc = "idle"
    /\ pc' = "authenticate"
    /\ depth' = 0
    /\ result' = <<>>
    /\ token_set' = <<>>
    /\ net' = {}
    /\ wrote' = {}
    /\ renamed' = {}
    /\ steps' = <<>>
    /\ received' = <<>>
    /\ got' = {}
    /\ call_cur' = _current_gm_token
    /\ prev_ok' = IF pc = "done" THEN result ELSE prev_ok
    /\ UNCHANGED <<username, tasks, now, ms_file, gm_file, _current_gm_token, clientVars, flowVars>>

\* GMAuth._get_gm_api_token(ts) up to its request, entered with the files
\* as ms2 and gm2, the written files as w2 and the obtained token sets as
\* g2: the cached token is returned
\* when valid, else the token exchange is sent.
_get_gm_api_token(ts, ms2, gm2, w2, g2) ==
    /\ ms_file' = ms2
    /\ gm_file' = gm2
    /\ wrote' = w2
    /\ got' = g2
    /\ IF _current_gm_token # <<>> /\ _token_is_valid(_current_gm_token[1], now)
       THEN /\ pc' = "done"
            /\ result' = _current_gm_token
            /\ token_set' = <<>>
            /\ net' = net
       ELSE /\ pc' = "exchange"
            /\ result' = result
            /\ token_set' = <<ts>>
            /\ net' = net \cup {"exchange"}
    /\ UNCHANGED <<username, tasks, now, _current_gm_token, depth, call_cur, prev_ok, renamed, clientVars>>

\* The full login begins: _do_full_auth_sequence sends the discovery request.
StartFullAuth ==
    /\ pc' = "discover"
    /\ net' = net \cup {"login"}
    /\ token_set' = <<>>
    /\ UNCHANGED <<username, tasks, now, ms_file, gm_file, _current_gm_token, depth, result>>
    /\ UNCHANGED <<wrote, renamed, got, call_cur, prev_ok, steps, received, clientVars, flowVars>>

\* GMAuth.authenticate from its first line to its first network request.
authenticate ==
    /\ pc = "authenticate"
    /\ LET r == _load_ms_token(ms_file, username, now) IN
       CASE r.kind = "stored" ->
              /\ _get_gm_api_token(r.token, ms_file, gm_file, wrote, got)
              /\ UNCHANGED <<steps, received, flowVars>>
         [] r.kind = "refresh" ->
              /\ pc' = "refresh"
              /\ token_set' = <<r.token>>
              /\ net' = net \cup {"refresh"}
              /\ UNCHANGED <<username, tasks, now, ms_file, gm_file, _current_gm_token, depth, result>>
              /\ UNCHANGED <<wrote, renamed, got, call_cur, prev_ok, steps, received, clientVars, flowVars>>
         [] OTHER -> StartFullAuth

\* Mutant of _refresh_ms_token: a failed refresh ends the call in an error.
_refresh_ms_token_raises ==
    /\ pc = "refresh"
    /\ \E resp \in MsResponses :
         IF resp.ok
         THEN LET old == token_set[1]["refresh_token"]
                  refreshed == MakeTokenSet(resp, IF resp.refresh_token = "" THEN old
                                                  ELSE resp.refresh_token, now)
              IN /\ _get_gm_api_token(refreshed, <<refreshed>>,
                                      SavedGmFile(_current_gm_token, gm_file),
                                      wrote \cup SavedFiles(_current_gm_token),
                                      got \cup {"refreshed"})
                 /\ UNCHANGED <<steps, received, flowVars>>
         ELSE /\ pc' = "error"
              /\ UNCHANGED <<username, tasks, now, ms_file, gm_file, _current_gm_token, token_set, depth, result>>
              /\ UNCHANGED <<ghostVars, clientVars, flowVars>>

\* GMAuth._refresh_ms_token answers; _load_ms_token saves and returns the
\* refreshed set, or swallows the failure and returns False.
_refresh_ms_token ==
    /\ pc = "refresh"
    /\ \E resp \in MsResponses :
         IF resp.ok
         THEN LET old == token_set[1]["refresh_token"]
                  refreshed == MakeTokenSet(resp, IF resp.refresh_token = "" THEN old
                                                  ELSE resp.refresh_token, now)
              IN /\ _get_gm_api_token(refreshed, <<refreshed>>,
                                      SavedGmFile(_current_gm_token, gm_file),
                                      wrote \cup SavedFiles(_current_gm_token),
                                      got \cup {"refreshed"})
                 /\ UNCHANGED <<steps, received, flowVars>>
         ELSE StartFullAuth

\* One request of the login flow answers: on to the next, or the call fails.
LoginStep(here, next) ==
    /\ pc = here
    /\ \E ok \in BOOLEAN : pc' = IF ok THEN next ELSE "error"
    /\ UNCHANGED <<username, tasks, now, ms_file, gm_file, _current_gm_token, token_set, depth, result>>
    /\ UNCHANGED <<ghostVars, clientVars, flowVars>>

\* GMAuth._get_oidc_endpoints: a failed discovery falls back, never fails.
_get_oidc_endpoints ==
    /\ pc = "discover"
    /\ pc' = "auth_page"
    /\ UNCHANGED <<username, tasks, now, ms_file, gm_file, _current_gm_token, token_set, depth, result>>
    /\ UNCHANGED <<ghostVars, clientVars, flowVars>>

\* _do_full_auth_sequence: the authorization page and its csrf / transId.
FetchAuthorizationPage == LoginStep("auth_page", "credentials")

\* GMAuth._submit_credentials.
_submit_credentials == LoginStep("credentials", "mfa_page")

\* GMAuth._handle_mfa: the MFA page GET, then the OTP POST.
_handle_mfa_get == LoginStep("mfa_page", "otp")
_handle_mfa_post == LoginStep("otp", "auth_code")

\* GMAuth._get_authorization_code.
_get_authorization_code == LoginStep("auth_code", "ms_token")

\* GMAuth._fetch_ms_token answers; _do_full_auth_sequence persists the set
\* and authenticate() goes on to _get_gm_api_token.
_fetch_ms_token ==
    /\ pc = "ms_token"
    /\ \E resp \in MsResponses :
         IF resp.ok
         THEN LET ts == MakeTokenSet(resp, resp.refresh_token, now)
              IN /\ _get_gm_api_token(ts, <<ts>>,
                                      SavedGmFile(_current_gm_token, gm_file),
                                      wrote \cup SavedFiles(_current_gm_token),
                                      got \cup {"login"})
                 /\ UNCHANGED <<steps, received, flowVars>>
         ELSE /\ pc' = "error"
              /\ UNCHANGED <<username, tasks, now, ms_file, gm_file, _current_gm_token, token_set, depth, result>>
              /\ UNCHANGED <<ghostVars, clientVars, flowVars>>

\* Mutant of ForceReauth: the token sets are saved before the vehs check,
\* so the files are written and then renamed away.
ForceReauth_after_save ==
    /\ ms_file' = <<>>
    /\ gm_file' = <<>>
    /\ wrote' = wrote \cup {"ms", "gm"}
    /\ _current_gm_token' = <<>>
    /\ token_set' = <<>>
    /\ IF depth < MaxReauth
       THEN pc' = "authenticate" /\ depth' = depth + 1
       ELSE pc' = "error" /\ depth' = depth
    /\ renamed' = renamed \cup {f \in {"ms"} : ms_file # <<>>}
                           \cup {f \in {"gm"} : gm_file # <<>>}
    /\ UNCHANGED <<username, tasks, now, result>>
    /\ UNCHANGED <<net, got, call_cur, prev_ok, steps, received, clientVars, flowVars>>

\* Mutant of ForceReauth: the token files are deleted, not renamed.
ForceReauth_unlink ==
    /\ ms_file' = <<>>
    /\ gm_file' = <<>>
    /\ renamed' = renamed
    /\ _current_gm_token' = <<>>
    /\ token_set' = <<>>
    /\ IF depth < MaxReauth
       THEN pc' = "authenticate" /\ depth' = depth + 1
       ELSE pc' = "error" /\ depth' = depth
    /\ UNCHANGED <<username, tasks, now, result>>
    /\ UNCHANGED <<net, wrote, got, call_cur, prev_ok, steps, received, clientVars, flowVars>>

\* Mutant of ForceReauth: the identity token file is left in place.
ForceReauth_keeps_identity ==
    /\ ms_file' = ms_file
    /\ gm_file' = <<>>
    /\ _current_gm_token' = <<>>
    /\ token_set' = <<>>
    /\ IF depth < MaxReauth
       THEN pc' = "authenticate" /\ depth' = depth + 1
       ELSE pc' = "error" /\ depth' = depth
    /\ renamed' = renamed \cup {f \in {"gm"} : gm_file # <<>>}
    /\ UNCHANGED <<username, tasks, now, result>>
    /\ UNCHANGED <<net, wrote, got, call_cur, prev_ok, steps, received, clientVars, flowVars>>

\* GMAuth._get_gm_api_token on a token without vehicles: both files are
\* renamed away, the cached token is dropped and authenticate() is called
\* again, which the interpreter refuses at its recursion limit.  Path.rename
\* is the POSIX one, which replaces an .old file that is already there.
ForceReauth ==
    /\ ms_file' = <<>>
    /\ gm_file' = <<>>
    /\ _current_gm_token' = <<>>
    /\ token_set' = <<>>
    /\ IF depth < MaxReauth
       THEN pc' = "authenticate" /\ depth' = depth + 1
       ELSE pc' = "error" /\ depth' = depth
    /\ renamed' = renamed \cup {f \in {"ms"} : ms_file # <<>>}
                           \cup {f \in {"gm"} : gm_file # <<>>}
    /\ UNCHANGED <<username, tasks, now, result>>
    /\ UNCHANGED <<net, wrote, got, call_cur, prev_ok, steps, received, clientVars, flowVars>>

\* Mutant of StoreGmToken: the vendor token is cached and returned but the
\* vendor token file is left as it was.
StoreGmToken_unsaved(gm_token) ==
    /\ _current_gm_token' = <<gm_token>>
    /\ ms_file' = token_set
    /\ gm_file' = gm_file
    /\ wrote' = wrote \cup {"ms"}
    /\ pc' = "done"
    /\ result' = <<gm_token>>
    /\ token_set' = <<>>
    /\ UNCHANGED <<username, tasks, now, depth, net, got, call_cur, prev_ok, renamed, steps, received, clientVars, flowVars>>

\* GMAuth._get_gm_api_token on a token with vehicles: it is cached, both
\* token sets are saved and it is returned.
StoreGmToken(gm_token) ==
    /\ _current_gm_token' = <<gm_token>>
    /\ ms_file' = token_set
    /\ gm_file' = <<gm_token>>
    /\ wrote' = wrote \cup {"ms", "gm"}
    /\ pc' = "done"
    /\ result' = <<gm_token>>
    /\ token_set' = <<>>
    /\ UNCHANGED <<username, tasks, now, depth, net, got, call_cur, prev_ok, renamed, steps, received, clientVars, flowVars>>

\* Mutant of TokenExchange: the vehs claim is not looked at.
TokenExchange_unchecked ==
    /\ pc = "exchange"
    /\ \E resp \in GmResponses :
         IF ~resp.ok \/ resp.access_token = BadJwt
         THEN /\ pc' = "error"
              /\ UNCHANGED <<username, tasks, now, ms_file, gm_file, _current_gm_token, token_set, depth, result>>
              /\ UNCHANGED <<ghostVars, clientVars, flowVars>>
         ELSE StoreGmToken([access_token |-> resp.access_token,
                            expires_at |-> now + resp.expires_in])

\* The token exchange answers: the rest of GMAuth._get_gm_api_token.
TokenExchange ==
    /\ pc = "exchange"
    /\ \E resp \in GmResponses :
         IF ~resp.ok \/ resp.access_token = BadJwt
         THEN /\ pc' = "error"
              /\ UNCHANGED <<username, tasks, now, ms_file, gm_file, _current_gm_token, token_set, depth, result>>
              /\ UNCHANGED <<ghostVars, clientVars, flowVars>>
         ELSE IF Get(resp.access_token, "vehs", <<>>) = <<>>
              THEN ForceReauth
              ELSE StoreGmToken([access_token |-> resp.access_token,
                                 expires_at |-> now + resp.expires_in])

\* OnStar._api_request begins: _ensure_token either finds the held token
\* fresh, and the HTTP request goes out, or runs get_gm_api_jwt, which
\* builds a new GMAuth and calls authenticate() on it.
_api_request ==
    /\ cpc = "idle"
    /\ AtRest
    /\ IF _needs_token_refresh(_token_resp, now)
       THEN /\ cpc' = "ensure"
            /\ last' = "none"
            /\ _current_gm_token' = _load_current_gm_api_token(gm_file, username, now)
            /\ call_cur' = _load_current_gm_api_token(gm_file, username, now)
            /\ pc' = "authenticate"
            /\ depth' = 0
            /\ result' = <<>>
            /\ token_set' = <<>>
            /\ net' = {}
            /\ wrote' = {}
            /\ renamed' = {}
            /\ steps' = <<>>
            /\ received' = <<>>
            /\ got' = {}
            /\ prev_ok' = <<>>
            /\ _token_endpoint' = FALLBACK_TOKEN_ENDPOINT
            /\ UNCHANGED <<code_verifier, csrf, trans_id>>
            /\ UNCHANGED <<username, tasks, now, ms_file, gm_file, _token_resp, _decoded_payload>>
       ELSE /\ last' = "sent"
            /\ UNCHANGED <<authVars, ghostVars, flowVars, _token_resp, _decoded_payload, cpc>>
    /\ UNCHANGED <<pollVars, catalogVars>>

\* get_gm_api_jwt returns or raises: the rest of OnStar._ensure_token, and
\* the HTTP request when it raised nothing.
_ensure_token ==
    /\ cpc = "ensure"
    /\ pc \in {"done", "error"}
    /\ cpc' = "idle"
    /\ IF pc = "error"
       THEN /\ last' = "auth_error"
            /\ UNCHANGED <<_token_resp, _decoded_payload>>
       ELSE /\ _token_resp' = result
            /\ _decoded_payload' = <<result[1]["access_token"]>>
            /\ last' = LET v == _validate_vin_authorization(_decoded_payload')
                       IN IF v = "ok" THEN "sent" ELSE v
    /\ UNCHANGED <<authVars, ghostVars, pollVars, flowVars, catalogVars>>

Next ==
    \/ Tick
    \/ GMAuth_init
    \/ Call
    \/ authenticate
    \/ _refresh_ms_token
    \/ _get_oidc_endpoints
    \/ FetchAuthorizationPage
    \/ _submit_credentials
    \/ _handle_mfa_get
    \/ _handle_mfa_post
    \/ _get_authorization_code
    \/ _fetch_ms_token
    \/ TokenExchange
    \/ _api_request
    \/ _ensure_token

Spec == Init /\ [][Next]_vars

\* ------------------------------------------------ the login flow in detail

\* The URL-safe base64 alphabet.
B64Alphabet ==
    << "A", "B", "C", "D", "E", "F", "G", "H", "I", "J", "K", "L", "M",
       "N", "O", "P", "Q", "R", "S", "T", "U", "V", "W", "X", "Y", "Z",
       "a", "b", "c", "d", "e", "f", "g", "h", "i", "j", "k", "l", "m",
       "n", "o", "p", "q", "r", "s", "t", "u", "v", "w", "x", "y", "z",
       "0", "1", "2", "3", "4", "5", "6", "7", "8", "9", "-", "_" >>

\* base64.urlsafe_b64encode(data): three bytes become four characters, and
\* a last group of one or two bytes is padded with "=".
RECURSIVE b64encode(_)
b64encode(data) ==
    IF data = <<>> THEN <<>>
    ELSE IF Len(data) = 1
    THEN << B64Alphabet[(data[1] \div 4) + 1],
            B64Alphabet[((data[1] % 4) * 16) + 1], "=", "=" >>
    ELSE IF Len(data) = 2
    THEN LET n == data[1] * 256 + data[2] IN
         << B64Alphabet[(n \div 1024) + 1],
            B64Alphabet[((n \div 16) % 64) + 1],
            B64Alphabet[((n % 16) * 4) + 1], "=" >>
    ELSE LET n == data[1] * 65536 + data[2] * 256 + data[3] IN
         << B64Alphabet[(n \div 262144) + 1],
            B64Alphabet[((n \div 4096) % 64) + 1],
            B64Alphabet[((n \div 64) % 64) + 1],
            B64Alphabet[(n % 64) + 1] >> \o b64encode(SubSeq(data, 4, Len(data)))

\* bytes.rstrip(c).
RECURSIVE rstrip(_, _)
rstrip(s, c) ==
    IF s # <<>> /\ s[Len(s)] = c THEN rstrip(SubSeq(s, 1, Len(s) - 1), c) ELSE s

\* Mutant of urlsafe_b64encode: the padding is kept.
urlsafe_b64encode_padded(data) == b64encode(data)

\* urlsafe_b64encode of auth.py: the encoding with its padding stripped.
urlsafe_b64encode(data) == rstrip(b64encode(data), "=")

\* str.encode() on a text over the alphabet: the ASCII code of each letter.
Ord(c) ==
    IF c = "=" THEN 61 ELSE
    LET i == CHOOSE k \in 1..Len(B64Alphabet) : B64Alphabet[k] = c IN
    IF i <= 26 THEN 64 + i
    ELSE IF i <= 52 THEN 70 + i
    ELSE IF i <= 62 THEN i - 5
    ELSE IF i = 63 THEN 45 ELSE 95
encode(text) == [i \in 1..Len(text) |-> Ord(text[i])]

\* hashlib.sha256(data).digest(), stood in for by a hash with a digest of
\* two bytes: like the 32 bytes of SHA-256, two bytes leave one "=" of
\* padding.
RECURSIVE Mix(_, _)
Mix(data, h) ==
    IF data = <<>> THEN h ELSE Mix(Tail(data), (h * 31 + data[1]) % 65536)
sha256(data) == LET h == Mix(data, 7) IN << h \div 256, h % 256 >>

\* What secrets.token_bytes may return: one, two and three bytes stand for
\* the 32.
token_bytes == { <<0>>, <<255, 254>> }

\* OIDC discovery documents: with both endpoints, one, or none.
DiscoveryDocuments ==
    { [issuer |-> "issuer"],
      [issuer |-> "issuer", authorization_endpoint |-> DiscoveredAuthorizationEndpoint],
      [issuer |-> "issuer", token_endpoint |-> DiscoveredTokenEndpoint],
      [issuer |-> "issuer", authorization_endpoint |-> DiscoveredAuthorizationEndpoint,
       token_endpoint |-> DiscoveredTokenEndpoint] }

\* What the discovery request may come to: no response at all, or a
\* response whose body is not JSON (<<>>), a JSON list or a document.
DiscoveryResponses ==
    { [network_error |-> TRUE] }
    \cup [status_code : {200}, json : {<<>>, <<[list |-> <<>>]>>} \cup {<<d>> : d \in DiscoveryDocuments}]
    \cup [status_code : {500},
          json : {<<>>, <<[issuer |-> "issuer",
                           authorization_endpoint |-> DiscoveredAuthorizationEndpoint,
                           token_endpoint |-> DiscoveredTokenEndpoint]>>}]

\* Mutant of oidc_endpoints: a document that lacks an endpoint is given up
\* as a whole.
oidc_endpoints_all_or_nothing(resp) ==
    IF \/ "network_error" \in DOMAIN resp
       \/ resp.status_code >= 400
       \/ resp.json = <<>>
       \/ ~IsDict(resp.json[1])
       \/ "authorization_endpoint" \notin DOMAIN resp.json[1]
       \/ "token_endpoint" \notin DOMAIN resp.json[1]
    THEN <<FALLBACK_AUTHORIZATION_ENDPOINT, FALLBACK_TOKEN_ENDPOINT>>
    ELSE <<resp.json[1]["authorization_endpoint"], resp.json[1]["token_endpoint"]>>

\* GMAuth._get_oidc_endpoints on the outcome of its request: whatever is
\* raised inside the try (by the request, raise_for_status, resp.json() or
\* data.get on a list) is answered with the hard-coded pair.
oidc_endpoints(resp) ==
    IF \/ "network_error" \in DOMAIN resp
       \/ resp.status_code >= 400
       \/ resp.json = <<>>
       \/ ~IsDict(resp.json[1])
    THEN <<FALLBACK_AUTHORIZATION_ENDPOINT, FALLBACK_TOKEN_ENDPOINT>>
    ELSE <<Get(resp.json[1], "authorization_endpoint", FALLBACK_AUTHORIZATION_ENDPOINT),
           Get(resp.json[1], "token_endpoint", FALLBACK_TOKEN_ENDPOINT)>>

\* A text is its characters, one one-letter string each.
Quote == "\""

\* The patterns the flow searches for, each of the shape prefix(.*?)stop:
\* prefix is the literal text before the group, stop the characters one of
\* which must follow it, at_end whether the end of the text will do as well.
\*   r'\"csrf\":\"(.*?)\"'     r'\"transId\":\"(.*?)\"'     r"code=(.*?)(&|$)"
CsrfPattern ==
    [prefix |-> << Quote, "c", "s", "r", "f", Quote, ":", Quote >>,
     stop |-> {Quote}, at_end |-> FALSE]
TransIdPattern ==
    [prefix |-> << Quote, "t", "r", "a", "n", "s", "I", "d", Quote, ":", Quote >>,
     stop |-> {Quote}, at_end |-> FALSE]
CodePattern ==
    [prefix |-> << "c", "o", "d", "e", "=" >>, stop |-> {"&"}, at_end |-> TRUE]

\* The smallest number of a non-empty set of numbers.
Min(S) == CHOOSE x \in S : \A y \in S : x <= y

\* GMAuth._regex_extract: re.search takes the leftmost place where the
\* pattern matches, and the lazy group runs to the first stop after it;
\* None is <<>>.
_regex_extract(text, pattern) ==
    LET n == Len(pattern.prefix)
        Stops(from) == { j \in from..Len(text) : text[j] \in pattern.stop }
        starts == { i \in 1..(Len(text) - n + 1) :
                      /\ SubSeq(text, i, i + n - 1) = pattern.prefix
                      /\ pattern.at_end \/ Stops(i + n) # {} }
    IN IF starts = {} THEN <<>>
       ELSE LET from == Min(starts) + n
                to == IF Stops(from) = {} THEN Len(text) ELSE Min(Stops(from)) - 1
            IN << SubSeq(text, from, to) >>

\* An Optional[str] as an f-string writes it.
Format(x) == IF x = <<>> THEN << <<"N", "o", "n", "e">> >> ELSE x

\* Python's `not x` on an Optional[str].
Not(x) == x = <<>> \/ x[1] = <<>>

\* "key":"value" as it stands in a page.
Field(key, value) == << Quote >> \o key \o << Quote, ":", Quote >> \o value \o << Quote >>

\* A page with those fields, <<>> for a field it does not have.
Page(c, t) ==
    << "{" >>
      \o (IF c = <<>> THEN <<>> ELSE Field(<<"c", "s", "r", "f">>, c[1]))
      \o << "," >>
      \o (IF t = <<>> THEN <<>> ELSE Field(<<"t", "r", "a", "n", "s", "I", "d">>, t[1]))
      \o << "}" >>

\* The pages of the login site: without the fields, with one of them, with
\* an empty csrf value, and two pages that have both.
Pages ==
    { Page(<<>>, <<>>),
      Page(<< <<"1">> >>, <<>>),
      Page(<<>>, << <<"3">> >>),
      Page(<< <<>> >>, << <<"3">> >>),
      Page(<< <<"1">> >>, << <<"3">> >>),
      Page(<< <<"2">> >>, << <<"4">> >>) }

\* What a GET of a page may answer.
PageResponses ==
    { [status_code |-> 500] } \cup [status_code : {200}, text : Pages]

\* What a POST of a form may answer.
FormResponses == [status_code : {200, 400}]

\* Location headers: an empty one, an error redirect, one with an empty
\* code, one with a code, and an error redirect whose parameter is named
\* error_code.
Locations ==
    { <<>>,
      << "m", ":", "?", "e", "r", "r", "o", "r", "=", "1" >>,
      << "m", ":", "?", "c", "o", "d", "e", "=", "&", "s", "=", "2" >>,
      << "m", ":", "?", "c", "o", "d", "e", "=", "7", "&", "s", "=", "2" >>,
      << "m", ":", "?", "e", "r", "r", "o", "r", "_", "c", "o", "d", "e", "=", "5" >> }

\* What the GET for the authorization code may answer; location is the
\* Location header, <<>> when there is none.
AuthCodeResponses ==
    { [status_code |-> 500] }
    \cup [status_code : {302}, location : {<<>>} \cup {<<l>> : l \in Locations}]
    \cup { [status_code |-> 200, location |-> <<>>],
           [status_code |-> 200,
            location |-> << << "m", ":", "?", "c", "o", "d", "e", "=", "7", "&", "s", "=", "2" >> >>] }

\* What pyotp's TOTP(totp_key).now() may give: it raises (<<>>) on a key
\* that is not base32.
Otps == { <<>>, << <<"6">> >> }

\* The auth_code _do_full_auth_sequence holds after lines 231-233, <<>> when
\* one of them raises: _get_request on an HTTP error,
\* _get_authorization_code on a status other than 302 or on a missing or
\* empty Location, line 233 when the pattern finds nothing or an empty code.
auth_code(resp) ==
    IF resp.status_code >= 400 THEN <<>>
    ELSE IF resp.status_code # 302 THEN <<>>
    ELSE IF resp.location = <<>> \/ resp.location[1] = <<>> THEN <<>>
    ELSE LET code == _regex_extract(resp.location[1], CodePattern) IN
         IF Not(code) THEN <<>> ELSE code

\* What a step of the login flow leaves alone.
flowFrame ==
    <<username, tasks, now, ms_file, gm_file, _current_gm_token, token_set, depth, result,
      net, wrote, got, call_cur, prev_ok, renamed, clientVars>>

\* An exception leaves _do_full_auth_sequence, and so authenticate(), on
\* the response resp.
Abort(resp) ==
    /\ pc' = "error"
    /\ received' = Append(received, resp)
    /\ code_verifier' = <<>>
    /\ csrf' = <<>>
    /\ trans_id' = <<>>
    /\ UNCHANGED <<steps, _token_endpoint, flowFrame>>

\* The flow goes on from the response resp with the request next_request,
\* holding csrf c and trans_id t.
Proceed(next, resp, next_request, c, t) ==
    /\ pc' = next
    /\ received' = Append(received, resp)
    /\ steps' = Append(steps, next_request)
    /\ csrf' = c
    /\ trans_id' = t
    /\ UNCHANGED <<code_verifier, _token_endpoint, flowFrame>>

\* GMAuth._start_ms_authorization_flow from the discovery response on, and
\* the GET of the authorization URL (line 215).
_start_ms_authorization_flow ==
    /\ pc = "discover"
    /\ \E resp \in DiscoveryResponses, random \in token_bytes :
         LET endpoints == oidc_endpoints(resp)
             verifier == urlsafe_b64encode(random)
             code_challenge == urlsafe_b64encode(sha256(encode(verifier)))
         IN /\ _token_endpoint' = endpoints[2]
            /\ code_verifier' = <<verifier>>
            /\ steps' = << [to |-> "discovery"],
                           [to |-> "authorize", url |-> endpoints[1],
                            code_challenge |-> code_challenge,
                            code_challenge_method |-> "S256"] >>
            /\ received' = <<resp>>
    /\ pc' = "auth_page"
    /\ csrf' = <<>>
    /\ trans_id' = <<>>
    /\ UNCHANGED flowFrame

\* Mutant of AuthorizationPage: a page without csrf or transId does not
\* stop the flow.
AuthorizationPage_unchecked ==
    /\ pc = "auth_page"
    /\ \E resp \in PageResponses :
         IF resp.status_code >= 400 THEN Abort(resp)
         ELSE LET c == _regex_extract(resp.text, CsrfPattern)
                  t == _regex_extract(resp.text, TransIdPattern)
              IN Proceed("credentials", resp,
                         [to |-> "credentials", tx |-> Format(t)[1], csrf |-> Format(c)[1]],
                         Format(c), Format(t))

\* _do_full_auth_sequence lines 215-225: the authorization page arrives,
\* csrf and transId are taken from it and the credentials are posted.
AuthorizationPage ==
    /\ pc = "auth_page"
    /\ \E resp \in PageResponses :
         IF resp.status_code >= 400 THEN Abort(resp)
         ELSE LET c == _regex_extract(resp.text, CsrfPattern)
                  t == _regex_extract(resp.text, TransIdPattern)
              IN IF Not(c) \/ Not(t) THEN Abort(resp)
                 ELSE Proceed("credentials", resp,
                              [to |-> "credentials", tx |-> t[1], csrf |-> c[1]], c, t)

\* _submit_credentials returns or raises; _handle_mfa sends its GET
\* (lines 403-408).
CredentialsAnswered ==
    /\ pc = "credentials"
    /\ \E resp \in FormResponses :
         IF resp.status_code >= 400 THEN Abort(resp)
         ELSE Proceed("mfa_page", resp,
                      [to |-> "mfa_page", tx |-> trans_id[1], csrf |-> csrf[1]],
                      csrf, trans_id)

\* Mutant of MfaPage: the OTP is posted, and the flow goes on, with the
\* csrf and trans_id of the authorization page.
MfaPage_old_csrf ==
    /\ pc = "mfa_page"
    /\ \E resp \in PageResponses, otp \in Otps :
         IF resp.status_code >= 400 THEN Abort(resp)
         ELSE LET csrf_for_otp == _regex_extract(resp.text, CsrfPattern)
                  trans_id_for_otp == _regex_extract(resp.text, TransIdPattern)
              IN IF Not(csrf_for_otp) \/ Not(trans_id_for_otp) THEN Abort(resp)
                 ELSE IF otp = <<>> THEN Abort(resp)
                 ELSE Proceed("otp", resp,
                              [to |-> "otp", tx |-> trans_id[1], csrf |-> csrf[1],
                               otpCode |-> otp[1]],
                              csrf, trans_id)

\* _handle_mfa lines 408-436: the MFA page arrives, the csrf and transId
\* for the OTP are taken from it, the OTP is generated and posted.
MfaPage ==
    /\ pc = "mfa_page"
    /\ \E resp \in PageResponses, otp \in Otps :
         IF resp.status_code >= 400 THEN Abort(resp)
         ELSE LET csrf_for_otp == _regex_extract(resp.text, CsrfPattern)
                  trans_id_for_otp == _regex_extract(resp.text, TransIdPattern)
              IN IF Not(csrf_for_otp) \/ Not(trans_id_for_otp) THEN Abort(resp)
                 ELSE IF otp = <<>> THEN Abort(resp)
                 ELSE Proceed("otp", resp,
                              [to |-> "otp", tx |-> trans_id_for_otp[1],
                               csrf |-> csrf_for_otp[1], otpCode |-> otp[1]],
                              csrf_for_otp, trans_id_for_otp)

\* The OTP POST returns or raises; _handle_mfa returns the csrf and
\* trans_id of the OTP step and _get_authorization_code sends its GET with
\* them.
OtpAnswered ==
    /\ pc = "otp"
    /\ \E resp \in FormResponses :
         IF resp.status_code >= 400 THEN Abort(resp)
         ELSE Proceed("auth_code", resp,
                      [to |-> "auth_code", tx |-> trans_id[1], csrf |-> csrf[1]],
                      csrf, trans_id)

\* _do_full_auth_sequence lines 231-239: the response to the GET for the
\* authorization code arrives and the code is posted to the token endpoint
\* with the code_verifier.
AuthorizationCode ==
    /\ pc = "auth_code"
    /\ \E resp \in AuthCodeResponses :
         LET code == auth_code(resp) IN
         IF code = <<>> THEN Abort(resp)
         ELSE Proceed("ms_token", resp,
                      [to |-> "token", url |-> _token_endpoint, code |-> code[1],
                       code_verifier |-> code_verifier[1]],
                      csrf, trans_id)

\* _fetch_ms_token's request is answered: the token set is built and saved
\* (line 242) and authenticate() goes on to _get_gm_api_token.
MsToken ==
    /\ pc = "ms_token"
    /\ \E resp \in MsResponses :
         IF resp.ok
         THEN LET ts == MakeTokenSet(resp, resp.refresh_token, now)
              IN /\ _get_gm_api_token(ts, <<ts>>,
                                      SavedGmFile(_current_gm_token, gm_file),
                                      wrote \cup SavedFiles(_current_gm_token),
                                      got \cup {"login"})
                 /\ steps' = Append(steps, [to |-> "persist"])
                 /\ received' = Append(received, resp)
                 /\ code_verifier' = <<>>
                 /\ csrf' = <<>>
                 /\ trans_id' = <<>>
                 /\ UNCHANGED _token_endpoint
         ELSE Abort(resp)

\* A GMAuth over an empty token directory on which authenticate() has
\* just been called.
LoginInit ==
    /\ username = <<"a">>
    /\ tasks = NoTasks
    /\ now = 0
    /\ ms_file = <<>>
    /\ gm_file = <<>>
    /\ _current_gm_token = <<>>
    /\ pc = "authenticate"
    /\ token_set = <<>>
    /\ depth = 0
    /\ result = <<>>
    /\ net = {}
    /\ wrote = {}
    /\ renamed = {}
    /\ steps = <<>>
    /\ received = <<>>
    /\ got = {}
    /\ call_cur = <<>>
    /\ prev_ok = <<>>
    /\ _token_resp = <<>>
    /\ _decoded_payload = <<>>
    /\ cpc = "idle"
    /\ last = "none"
    /\ NoFlow
    /\ NoChain
    /\ NoCatalog

LoginNext ==
    \/ authenticate
    \/ _start_ms_authorization_flow
    \/ AuthorizationPage
    \/ CredentialsAnswered
    \/ MfaPage
    \/ OtpAnswered
    \/ AuthorizationCode
    \/ MsToken
    \/ TokenExchange

LoginSpec == LoginInit /\ [][LoginNext]_vars



\* ------------------------------------------------ requests of one client

\* The polling timeouts and intervals a client may be constructed with.
PollingTimeouts == {2}
PollingIntervals == {1, 2, 3}

\* The arguments callers give _api_request.
CallFrames ==
    [method : {"POST"}, current_retry : {0}, max_retries : {0, 2},
     check_request_status : {<<>>, <<FALSE>>}, is_status_check : {FALSE},
     poll_count : {0}, max_polls : {<<>>, <<0>>, <<2>>}]

\* A vendor token for the configured VIN that stays fresh for the whole run.
FreshToken ==
    [access_token |-> [uid |-> <<"A">>, vehs |-> << <<"v">> >>],
     expires_at |-> MaxClock + TOKEN_REFRESH_WINDOW_SECONDS + 1]

\* A client that holds a fresh token, configured in any of the ways above,
\* on a host in any of the time zones, before its first request.
PollInit ==
    /\ username = <<"a">>
    /\ tasks = NoTasks
    /\ now = 0
    /\ ms_file = <<>>
    /\ gm_file = <<FreshToken>>
    /\ _current_gm_token = <<FreshToken>>
    /\ pc = "done"
    /\ token_set = <<>>
    /\ depth = 0
    /\ result = <<FreshToken>>
    /\ net = {}
    /\ wrote = {}
    /\ renamed = {}
    /\ steps = <<>>
    /\ received = <<>>
    /\ got = {}
    /\ call_cur = <<>>
    /\ prev_ok = <<>>
    /\ _token_resp = <<FreshToken>>
    /\ _decoded_payload = <<FreshToken["access_token"]>>
    /\ cpc = "idle"
    /\ last = "none"
    /\ NoFlow
    /\ NoCatalog
    /\ _request_polling_timeout_seconds \in PollingTimeouts
    /\ _request_polling_interval_seconds \in PollingIntervals
    /\ _check_request_status \in BOOLEAN
    /\ utc_offset \in UtcOffsets
    /\ ppc = "idle"
    /\ frame = DefaultFrame
    /\ stack = <<>>
    /\ response = <<>>
    /\ outcome = <<>>
    /\ sends = 0
    /\ gets = 0
    /\ attempts = 0
    /\ poll_sleeps = 0
    /\ retry_sleeps = 0
    /\ last_get_at = <<>>
    /\ command_time = <<>>
    /\ clean = TRUE

\* What a chain leaves alone: the session and the configuration.
sessionVars ==
    <<username, tasks, ms_file, gm_file, _current_gm_token, pc, token_set, depth, result,
      ghostVars, flowVars, _token_resp, _decoded_payload, cpc, last, configVars,
      catalogVars>>

\* Mutant of ShouldRetry: the test admits one attempt more
\* (current_retry <= max_retries).
ShouldRetry_once_more(r, f) ==
    /\ r.status_code = 500
    /\ f.current_retry <= f.max_retries
    /\ r.json # <<>>
    /\ IsDuplicateRequest(r.json[1])

\* The duplicate-request test of lines 320-324 on response r in a call with
\* arguments f; a body that is not JSON makes response.json() raise, which
\* line 336 swallows.
ShouldRetry(r, f) ==
    /\ r.status_code = 500
    /\ f.current_retry < f.max_retries
    /\ r.json # <<>>
    /\ IsDuplicateRequest(r.json[1])

\* OnStar._api_request from the arrival of response r (line 313) to its
\* next suspension (a sleep) or its end, in a call with arguments f at
\* clock reading t.
AfterResponse(r, f, t) ==
    IF ShouldRetry(r, f) THEN [do |-> "retry"]
    ELSE IF r.status_code >= 400 THEN [do |-> "raise", error |-> HTTPStatusError(r)]
    ELSE IF r.json = <<>> THEN [do |-> "raise", error |-> JSONDecodeError]
    ELSE
    LET response_data == r.json[1]
        return == [do |-> "return", value |-> response_data]
        should_check_status ==
            IF f.check_request_status # <<>> THEN f.check_request_status[1]
            ELSE _check_request_status
    IN
    IF ~(should_check_status /\ IsDict(response_data)) THEN return
    ELSE IF DOMAIN Get(response_data, "commandResponse", <<>>) = {} THEN return
    ELSE
    LET command_response == response_data["commandResponse"]
        has_request_time == "requestTime" \in DOMAIN command_response
        status == Get(command_response, "status", "None")
        has_status_url == "url" \in DOMAIN command_response
        command_type == Get(command_response, "type", "None")
    IN
    IF status = "failure"
    THEN [do |-> "raise", error |-> CommandFailed(response_data)]
    ELSE IF status = "success" /\ "body" \in DOMAIN command_response THEN return
    ELSE IF f.max_polls # <<>> /\ f.poll_count >= f.max_polls[1] THEN return
    ELSE IF has_request_time /\ "malformed" \in DOMAIN command_response["requestTime"]
    THEN [do |-> "raise", error |-> StrptimeError]
    ELSE IF /\ has_request_time
            /\ t >= request_timestamp(command_response["requestTime"], utc_offset)
                        + _request_polling_timeout_seconds
    THEN [do |-> "raise", error |-> CommandTimedOut(_request_polling_timeout_seconds)]
    ELSE IF command_type = "connect" THEN return
    ELSE IF has_status_url /\ status # "success"
    THEN [do |-> "poll", should_check_status |-> should_check_status]
    ELSE return

\* A response that leaves a command running, as the claims mean it: HTTP
\* 200, status pending or inProgress, a poll URL, not a connect command,
\* and a requestTime (if any) less than the timeout before t in UTC.
NonTerminalInTime(r, t) ==
    /\ r.status_code = 200
    /\ r.json # <<>>
    /\ IsDict(r.json[1])
    /\ DOMAIN Get(r.json[1], "commandResponse", <<>>) # {}
    /\ LET cr == r.json[1]["commandResponse"] IN
       /\ cr["status"] \in {"pending", "inProgress"}
       /\ "url" \in DOMAIN cr
       /\ cr["type"] # "connect"
       /\ "requestTime" \in DOMAIN cr =>
             /\ "utc" \in DOMAIN cr["requestTime"]
             /\ t < cr["requestTime"]["utc"] + _request_polling_timeout_seconds

\* An outermost _api_request call with arguments f sends its request.
SendFirst(f) ==
    /\ frame' = f
    /\ ppc' = "request"
    /\ stack' = <<>>
    /\ response' = <<>>
    /\ outcome' = <<>>
    /\ sends' = 1
    /\ gets' = 0
    /\ attempts' = 1
    /\ poll_sleeps' = 0
    /\ retry_sleeps' = 0
    /\ last_get_at' = <<>>
    /\ command_time' = <<>>
    /\ clean' = TRUE

\* A caller invokes _api_request on a client whose token is fresh
\* (_ensure_token returns at once) and the HTTP request goes out.
ApiCall ==
    /\ ppc = "idle"
    /\ ~_needs_token_refresh(_token_resp, now)
    /\ \E f \in CallFrames : SendFirst(f)
    /\ UNCHANGED <<now, sessionVars>>

\* A second passes while a request is on its way.
Latency ==
    /\ ppc = "request"
    /\ now < MaxClock
    /\ now' = now + 1
    /\ UNCHANGED <<sessionVars, chainVars, countVars>>

\* The HTTP response arrives and the innermost call runs to its next sleep
\* or to its end; what it returns or raises passes through the calls that
\* await it.
Arrive(responses) ==
    /\ ppc = "request"
    /\ \E r \in responses :
         LET a == AfterResponse(r, frame, now) IN
         /\ response' = <<r>>
         /\ clean' = (clean /\ NonTerminalInTime(r, now))
         /\ command_time' =
              IF /\ command_time = <<>>
                 /\ r.status_code = 200 /\ r.json # <<>> /\ IsDict(r.json[1])
                 /\ DOMAIN Get(r.json[1], "commandResponse", <<>>) # {}
                 /\ "requestTime" \in DOMAIN r.json[1]["commandResponse"]
                 /\ "utc" \in DOMAIN r.json[1]["commandResponse"]["requestTime"]
              THEN <<r.json[1]["commandResponse"]["requestTime"]["utc"]>>
              ELSE command_time
         /\ CASE a.do = "retry" ->
                   /\ ppc' = "retry_sleep"
                   /\ stack' = Append(stack, "retry")
                   /\ UNCHANGED <<frame, outcome>>
              [] a.do = "poll" ->
                   /\ ppc' = "poll_sleep"
                   /\ stack' = Append(stack, "poll")
                   /\ frame' = [frame EXCEPT !.check_request_status = <<a.should_check_status>>]
                   /\ UNCHANGED outcome
              [] a.do = "return" ->
                   /\ ppc' = "returned"
                   /\ outcome' = <<a.value>>
                   /\ stack' = <<>>
                   /\ UNCHANGED frame
              [] a.do = "raise" ->
                   /\ ppc' = "raised"
                   /\ outcome' = <<Propagate(stack, a.error)>>
                   /\ stack' = <<>>
                   /\ UNCHANGED frame
    /\ UNCHANGED <<now, sends, gets, attempts, poll_sleeps, retry_sleeps, last_get_at>>

\* The vendor answers a request of the chain.
Respond ==
    /\ Arrive(ErrorResponses \cup OkResponses(now, _request_polling_timeout_seconds))
    /\ UNCHANGED sessionVars

\* A nested _api_request call begins with arguments f after a sleep of d
\* seconds: the interpreter refuses it at its recursion limit (the chain
\* ends at "overflow", with what that raises at the caller), else
\* _ensure_token returns at once and the request goes out.
Nested(f, d) ==
    /\ now + d <= MaxClock
    /\ now' = now + d
    /\ ~_needs_token_refresh(_token_resp, now')
    /\ IF Len(stack) > MaxDepth
       THEN /\ ppc' = "overflow"
            /\ outcome' = <<Propagate(stack, RecursionError)>>
            /\ stack' = <<>>
            /\ UNCHANGED <<frame, sends, gets, attempts, last_get_at>>
       ELSE /\ ppc' = "request"
            /\ frame' = f
            /\ sends' = sends + 1
            /\ gets' = IF f.is_status_check THEN gets + 1 ELSE gets
            /\ attempts' = IF f.current_retry > 0 THEN attempts + 1 ELSE 1
            /\ last_get_at' = IF f.is_status_check THEN <<now'>> ELSE last_get_at
            /\ UNCHANGED <<stack, outcome>>
    /\ UNCHANGED <<response, command_time, clean>>

\* The same with nothing else of the client touched.
NestedCall(f, d) == Nested(f, d) /\ UNCHANGED sessionVars

\* The arguments of the retried call (lines 328-335).
RetryFrame == [frame EXCEPT !.current_retry = @ + 1]

\* asyncio.sleep(retry_delay) ends and the same request is sent again
\* (lines 326-335).
Retry ==
    /\ ppc = "retry_sleep"
    /\ retry_sleeps' = retry_sleeps + 1
    /\ poll_sleeps' = poll_sleeps
    /\ NestedCall(RetryFrame, retry_delay)

\* Mutant of Poll: the recursive call passes poll_count on unchanged.
Poll_uncounted ==
    /\ ppc = "poll_sleep"
    /\ poll_sleeps' = poll_sleeps + 1
    /\ retry_sleeps' = retry_sleeps
    /\ NestedCall([method |-> "GET", current_retry |-> 0, max_retries |-> 1,
                   check_request_status |-> frame.check_request_status,
                   is_status_check |-> TRUE,
                   poll_count |-> frame.poll_count,
                   max_polls |-> frame.max_polls],
                  _request_polling_interval_seconds)

\* The arguments of the status poll (lines 386-393).
PollFrame ==
    [method |-> "GET", current_retry |-> 0, max_retries |-> 1,
     check_request_status |-> frame.check_request_status,
     is_status_check |-> TRUE,
     poll_count |-> frame.poll_count + 1,
     max_polls |-> frame.max_polls]

\* Mutant of Poll: the status URL is fetched without the pause.
Poll_no_pause ==
    /\ ppc = "poll_sleep"
    /\ poll_sleeps' = poll_sleeps + 1
    /\ retry_sleeps' = retry_sleeps
    /\ NestedCall(PollFrame, 0)

\* _check_request_pause ends and the status URL is fetched (lines 383-393).
Poll ==
    /\ ppc = "poll_sleep"
    /\ poll_sleeps' = poll_sleeps + 1
    /\ retry_sleeps' = retry_sleeps
    /\ NestedCall(PollFrame, _request_polling_interval_seconds)

PollNext ==
    \/ ApiCall
    \/ Latency
    \/ Respond
    \/ Retry
    \/ Poll

PollSpec == PollInit /\ [][PollNext]_vars

\* ---------------------------------------------------- the command catalog

\* URLs: one a command entry of the account response carries, and the one
\* _get_command_url builds for a name the catalog does not have
\* (f"{API_BASE}/account/vehicles/{self._vin}/commands/{command_name}").
ListedUrl(command_name) == [href |-> command_name]
FallbackUrl(command_name) == [base |-> "API_BASE", vin |-> _vin, command |-> command_name]
AccountUrl == [path |-> "/account/vehicles"]

\* Command names callers ask for, and names of diagnostic items.
CommandNames == {"start", "lockDoor", "diagnostics"}
RequestedItems ==
    { <<>>, <<"odo">>, <<"tire">>, <<"tire", "odo">>, <<"fuel", "tire", "odo">> }

\* Command entries of an account response: with name and url, without url,
\* the diagnostics command with and without its commandData.
StartCommand == [name |-> "start", url |-> ListedUrl("start")]
LockCommandNoUrl == [name |-> "lockDoor"]
DiagnosticsCommand ==
    [name |-> "diagnostics", url |-> ListedUrl("diagnostics"),
     commandData |-> [supportedDiagnostics |-> [supportedDiagnostic |-> <<"odo", "fuel">>]]]
DiagnosticsCommandNoData == [name |-> "diagnostics", url |-> ListedUrl("diagnostics")]

\* Vehicle entries of an account response: of the configured VIN (with
\* commands, with some, with an empty list, without the commands key), of
\* the configured VIN written in lower case, and of another VIN.
Vehicle(vin, commands) == [vin |-> vin, commands |-> [command |-> commands]]
OtherVin == <<"W">>
VehicleLists ==
    { <<>>,
      << Vehicle(_vin, <<StartCommand, DiagnosticsCommand>>) >>,
      << Vehicle(_vin, <<LockCommandNoUrl, DiagnosticsCommandNoData>>) >>,
      << Vehicle(_vin, <<>>) >>,
      << [vin |-> _vin, make |-> "make"] >>,
      << Vehicle(ConfigVin, <<StartCommand>>) >>,
      << Vehicle(OtherVin, <<StartCommand>>) >>,
      << Vehicle(OtherVin, <<StartCommand>>), Vehicle(_vin, <<StartCommand>>) >> }

\* Account responses: with a vehicle list, and without one.
AccountResponses ==
    { [status_code |-> 200, json |-> <<[vehicles |-> [vehicle |-> l]]>>] : l \in VehicleLists }
    \cup { [status_code |-> 200, json |-> <<[vehicles |-> [size |-> "0"]]>>] }

\* What the vendor may answer a request of a public method: an account
\* response, an error, a duplicate-request error, a command still running
\* and a finished one.
CatalogResponses ==
    AccountResponses
    \cup { [status_code |-> 500, json |-> <<>>],
           [status_code |-> 500,
            json |-> <<[error |-> [code |-> "ONS-300",
                                   description |-> "Duplicate vehicle request"]]>>] }
    \cup { [status_code |-> 200,
            json |-> <<[commandResponse |->
                          Envelope("inProgress", "lockDoor", TRUE, <<>>, FALSE)]>>],
           [status_code |-> 200,
            json |-> <<[commandResponse |->
                          Envelope("success", "lockDoor", FALSE, <<>>, TRUE)]>>] }

\* OnStar.is_command_available.
is_command_available(command_name) == command_name \in DOMAIN _available_commands

\* OnStar._get_command_url.
_get_command_url(command_name) ==
    IF command_name \in DOMAIN _available_commands
    THEN _available_commands[command_name]["url"]
    ELSE FallbackUrl(command_name)

\* OnStar.get_command_data; <<>> is the empty dict.
get_command_data(command_name) ==
    IF command_name \in DOMAIN _available_commands
    THEN _available_commands[command_name]
    ELSE <<>>

\* OnStar.get_supported_diagnostics.
get_supported_diagnostics ==
    LET command_data == get_command_data("diagnostics") IN
    IF /\ "commandData" \in DOMAIN command_data
       /\ "supportedDiagnostics" \in DOMAIN command_data["commandData"]
       /\ "supportedDiagnostic"
             \in DOMAIN command_data["commandData"]["supportedDiagnostics"]
    THEN command_data["commandData"]["supportedDiagnostics"]["supportedDiagnostic"]
    ELSE <<>>

\* The dict get_account_vehicles builds from the command list of a vehicle
\* entry (lines 422-425): entries without name or url are skipped, a later
\* entry of a name replaces an earlier one.
Commands(list) ==
    LET kept == { i \in 1..Len(list) : {"name", "url"} \subseteq DOMAIN list[i] }
        names == { list[i]["name"] : i \in kept }
    IN IF names = {} THEN <<>>
       ELSE [ n \in names |->
                list[CHOOSE i \in kept : /\ list[i]["name"] = n
                                         /\ \A j \in kept : list[j]["name"] = n => j <= i] ]

\* The test of line 418 on one vehicle entry.
IsConfiguredVehicle(vehicle) ==
    /\ Get(vehicle, "vin", <<>>) = _vin
    /\ "commands" \in DOMAIN vehicle
    /\ "command" \in DOMAIN vehicle["commands"]

\* get_account_vehicles from the return of _api_request on (lines 416-430):
\* the catalog and the vehicle data the client holds afterwards, given the
\* ones it held. The last entry that passes the test wins; when none does,
\* both stay as they were.
Parsed(response_data, commands, vehicle_data) ==
    IF ~(/\ IsDict(response_data)
         /\ "vehicles" \in DOMAIN response_data
         /\ "vehicle" \in DOMAIN response_data["vehicles"])
    THEN [commands |-> commands, vehicle_data |-> vehicle_data]
    ELSE LET list == response_data["vehicles"]["vehicle"]
             hits == { i \in 1..Len(list) : IsConfiguredVehicle(list[i]) }
         IN IF hits = {} THEN [commands |-> commands, vehicle_data |-> vehicle_data]
            ELSE LET vehicle == list[CHOOSE i \in hits : \A j \in hits : j <= i]
                 IN [commands |-> Commands(vehicle["commands"]["command"]),
                     vehicle_data |-> <<vehicle>>]

\* Mutant of supported_items: the requested items are taken as they are.
supported_items_unfiltered(requested_items, supported_diagnostics) == requested_items

\* `[item for item in requested_items if item in supported_diagnostics]`.
supported_items(requested_items, supported_diagnostics) ==
    SelectSeq(requested_items,
              LAMBDA item : \E i \in 1..Len(supported_diagnostics) :
                               supported_diagnostics[i] = item)

\* What a public method leaves alone apart from the configuration, the
\* catalog and the chain of requests.
heldVars ==
    <<username, tasks, ms_file, gm_file, _current_gm_token, pc, token_set, depth, result,
      ghostVars, flowVars, _token_resp, _decoded_payload, cpc, last>>

\* A public method raised before it called anything.
Refused(call) ==
    /\ op' = [call EXCEPT !.state = "ValueError"]
    /\ sent' = <<>>
    /\ UNCHANGED <<now, heldVars, pollVars, _available_commands, _vehicle_data, fetched>>

\* get_account_vehicles() is called: the GET goes out.
get_account_vehicles ==
    /\ op.state # "running"
    /\ ~_needs_token_refresh(_token_resp, now)
    /\ SendFirst(DefaultFrame)
    /\ op' = [NoCall EXCEPT !.method = "get_account_vehicles", !.state = "running"]
    /\ sent' = <<[method |-> "GET", url |-> AccountUrl, json_body |-> <<>>]>>
    /\ fetched' = TRUE
    /\ UNCHANGED <<now, heldVars, configVars, _available_commands, _vehicle_data>>

\* Mutant of execute_command: a name the catalog lacks is sent to the URL
\* _get_command_url builds for it.
execute_command_unchecked ==
    /\ op.state # "running"
    /\ \E command_name \in CommandNames, request_body \in {<<>>} :
         LET call == [NoCall EXCEPT !.method = "execute_command",
                                    !.command_name = command_name]
         IN /\ ~_needs_token_refresh(_token_resp, now)
            /\ SendFirst([DefaultFrame EXCEPT !.method = "POST"])
            /\ op' = [call EXCEPT !.state = "running"]
            /\ sent' = <<[method |-> "POST", url |-> _get_command_url(command_name),
                          json_body |-> request_body]>>
            /\ UNCHANGED <<now, heldVars, configVars, _available_commands,
                           _vehicle_data, fetched>>

\* execute_command(command_name, request_body) is called: it raises
\* ValueError, or the POST goes out.
execute_command ==
    /\ op.state # "running"
    /\ \E command_name \in CommandNames, request_body \in {<<>>} :
         LET call == [NoCall EXCEPT !.method = "execute_command",
                                    !.command_name = command_name]
         IN IF ~is_command_available(command_name)
            THEN Refused(call)
            ELSE /\ ~_needs_token_refresh(_token_resp, now)
                 /\ SendFirst([DefaultFrame EXCEPT !.method = "POST"])
                 /\ op' = [call EXCEPT !.state = "running"]
                 /\ sent' = <<[method |-> "POST", url |-> _get_command_url(command_name),
                               json_body |-> request_body]>>
                 /\ UNCHANGED <<now, heldVars, configVars, _available_commands,
                                _vehicle_data, fetched>>

\* The timeout_seconds and max_polls callers give diagnostics().
DiagnosticsTimeouts == {1, 3}
DiagnosticsMaxPolls == {<<>>, <<1>>}

\* diagnostics(options, timeout_seconds, max_polls) is called: it raises
\* ValueError, or it sets the polling timeout and the POST goes out. options
\* is None (<<>>) or a dict with diagnostic_item.
diagnostics ==
    /\ op.state # "running"
    /\ \E options \in {<<>>} \cup {<<[diagnostic_item |-> l]>> : l \in RequestedItems},
          timeout_seconds \in DiagnosticsTimeouts,
          max_polls \in DiagnosticsMaxPolls :
         LET call == [NoCall EXCEPT !.method = "diagnostics", !.command_name = "diagnostics",
                                    !.options = options]
             supported_diagnostics == get_supported_diagnostics
             asked == options # <<>> /\ "diagnostic_item" \in DOMAIN options[1]
             requested_items ==
                 IF asked
                 THEN supported_items(options[1]["diagnostic_item"], supported_diagnostics)
                 ELSE <<>>
             body == [diagnosticsRequest |->
                        [diagnosticItem |-> IF requested_items # <<>> THEN requested_items
                                            ELSE supported_diagnostics]]
         IN IF ~is_command_available("diagnostics") THEN Refused(call)
            ELSE IF asked /\ requested_items = <<>> THEN Refused(call)
            ELSE /\ ~_needs_token_refresh(_token_resp, now)
                 /\ _request_polling_timeout_seconds' = timeout_seconds
                 /\ SendFirst([DefaultFrame EXCEPT !.method = "POST",
                                                   !.check_request_status = <<TRUE>>,
                                                   !.max_polls = max_polls])
                 /\ op' = [call EXCEPT !.state = "running",
                                       !.original_timeout = _request_polling_timeout_seconds]
                 /\ sent' = <<[method |-> "POST", url |-> _get_command_url("diagnostics"),
                               json_body |-> <<body>>]>>
                 /\ UNCHANGED <<now, heldVars, _request_polling_interval_seconds,
                                _check_request_status, utc_offset, _available_commands,
                                _vehicle_data, fetched>>

\* The rest of the public method once its _api_request has returned or
\* raised: get_account_vehicles stores the catalog, diagnostics restores the
\* polling timeout (finally); while the chain goes on, nothing.
Resume ==
    IF ppc' \in {"returned", "raised", "overflow"}
    THEN /\ op' = [op EXCEPT !.state = IF ppc' = "returned" THEN "returned" ELSE "raised"]
         /\ IF op.method = "get_account_vehicles" /\ ppc' = "returned"
            THEN LET p == Parsed(outcome'[1], _available_commands, _vehicle_data)
                 IN /\ _available_commands' = p.commands
                    /\ _vehicle_data' = p.vehicle_data
            ELSE UNCHANGED <<_available_commands, _vehicle_data>>
         /\ _request_polling_timeout_seconds' =
               IF op.method = "diagnostics" THEN op.original_timeout
               ELSE _request_polling_timeout_seconds
    ELSE UNCHANGED <<op, _available_commands, _vehicle_data,
                     _request_polling_timeout_seconds>>

\* What a step of a running public method leaves alone besides.
resumeFrame ==
    <<heldVars, _request_polling_interval_seconds, _check_request_status, utc_offset,
      sent, fetched>>

\* The response to a request of a public method arrives, in the second in
\* which the request went out.
Answered ==
    /\ Arrive(CatalogResponses)
    /\ Resume
    /\ UNCHANGED resumeFrame

\* The sleep before a retry ends.
Retried ==
    /\ ppc = "retry_sleep"
    /\ retry_sleeps' = retry_sleeps + 1
    /\ poll_sleeps' = poll_sleeps
    /\ Nested(RetryFrame, retry_delay)
    /\ Resume
    /\ UNCHANGED resumeFrame

\* The pause before a status poll ends.
Polled ==
    /\ ppc = "poll_sleep"
    /\ poll_sleeps' = poll_sleeps + 1
    /\ retry_sleeps' = retry_sleeps
    /\ Nested(PollFrame, _request_polling_interval_seconds)
    /\ Resume
    /\ UNCHANGED resumeFrame

\* A client with a fresh token on a host on UTC, constructed with a polling
\* timeout of 2 s, an interval of 1 s and status checking on.
CatalogInit ==
    /\ PollInit
    /\ _request_polling_timeout_seconds = 2
    /\ _request_polling_interval_seconds = 1
    /\ _check_request_status = TRUE
    /\ utc_offset = 0

CatalogNext ==
    \/ get_account_vehicles
    \/ execute_command
    \/ diagnostics
    \/ Answered
    \/ Retried
    \/ Polled

CatalogSpec == CatalogInit /\ [][CatalogNext]_vars

\* ------------------------------------------- coroutines side by side

\* What the coroutines of this section leave alone: the GMAuth of the
\* caller's thread, the request chain of the sections above and the rest of
\* the configuration.
taskFrame ==
    <<now, username, _current_gm_token, pc, token_set, depth, result, ghostVars, flowVars,
      cpc, last, _request_polling_interval_seconds, _check_request_status, utc_offset,
      chainVars, countVars, op, sent>>

\* The coroutine t is inside a public method.
Running(t) == tasks[t].state \in {"ensure", "request", "poll_sleep"}

\* OnStar._ensure_token at the start of an _api_request call: the call
\* awaits asyncio.to_thread(get_gm_api_jwt, ...) when the held token needs
\* refresh ("ensure"), else it sends its HTTP request and awaits the
\* response ("request").
AwaitedFirst == IF _needs_token_refresh(_token_resp, now) THEN "ensure" ELSE "request"

\* The arguments diagnostics() gives _api_request (lines 690-696), with
\* max_polls left at None.
DiagnosticsFrame ==
    [DefaultFrame EXCEPT !.method = "POST", !.check_request_status = <<TRUE>>]

\* The public method of coroutine t ends ("returned" or "raised"): the
\* finally block of diagnostics() puts back the timeout it saved.
Finish(t, how) ==
    /\ tasks' = [tasks EXCEPT ![t].state = how]
    /\ _request_polling_timeout_seconds' =
          IF tasks[t].method = "diagnostics" THEN tasks[t].original_timeout
          ELSE _request_polling_timeout_seconds

\* The coroutine t calls get_account_vehicles().
Task_get_account_vehicles(t) ==
    /\ ~Running(t)
    /\ tasks' = [tasks EXCEPT ![t] = [method |-> "get_account_vehicles",
                                      state |-> AwaitedFirst,
                                      original_timeout |-> 0]]
    /\ fetched' = TRUE
    /\ UNCHANGED <<ms_file, gm_file, _token_resp, _decoded_payload,
                   _request_polling_timeout_seconds, _available_commands, _vehicle_data,
                   taskFrame>>

\* The coroutine t calls diagnostics(None, timeout_seconds): ValueError
\* without the command (lines 647-649), else the polling timeout is saved
\* and overwritten (683, 687) and _api_request begins.
Task_diagnostics(t) ==
    /\ ~Running(t)
    /\ \E timeout_seconds \in DiagnosticsTimeouts :
         IF ~is_command_available("diagnostics")
         THEN /\ tasks' = [tasks EXCEPT ![t] = [method |-> "diagnostics",
                                                state |-> "raised",
                                                original_timeout |-> 0]]
              /\ UNCHANGED _request_polling_timeout_seconds
         ELSE /\ tasks' = [tasks EXCEPT ![t] =
                             [method |-> "diagnostics",
                              state |-> AwaitedFirst,
                              original_timeout |-> _request_polling_timeout_seconds]]
              /\ _request_polling_timeout_seconds' = timeout_seconds
    /\ UNCHANGED <<ms_file, gm_file, _token_resp, _decoded_payload, _available_commands,
                   _vehicle_data, fetched, taskFrame>>

\* The vendor tokens and the identity token set a login with exchange may
\* come back with at clock t: tokens with vehicles, for the configured VIN
\* or for another one.
ThreadTokens(t) ==
    { [access_token |-> r.access_token, expires_at |-> t + r.expires_in] :
        r \in { x \in GmResponses : /\ x.ok
                                    /\ x.access_token # BadJwt
                                    /\ Get(x.access_token, "vehs", <<>>) # <<>>
                                    /\ x.expires_in = AUTH_WINDOW + 1 } }
ThreadTokenSet(t) ==
    MakeTokenSet([ok |-> TRUE, access_token |-> [name |-> <<"A">>, email |-> <<>>],
                  refresh_token |-> "rt", expires_in |-> AUTH_WINDOW + 1], "rt", t)

\* The worker thread of coroutine t ends get_gm_api_jwt (auth.py 658-672)
\* and the coroutine goes on in _ensure_token (client.py 226-228) and
\* _api_request. The thread's GMAuth returns the vendor token of the file
\* when it is the user's and valid; else it logs in and exchanges, which
\* fails, or writes both files and returns the new token. What the thread
\* does step by step is the subject of the first section; here it counts
\* from start to end as one authentication in progress.
get_gm_api_jwt(t) ==
    /\ tasks[t].state = "ensure"
    /\ LET cached == _load_current_gm_api_token(gm_file, username, now)
           resume(token) ==
               /\ _token_resp' = <<token>>
               /\ _decoded_payload' = <<token["access_token"]>>
               /\ IF _validate_vin_authorization(_decoded_payload') = "ok"
                  THEN /\ tasks' = [tasks EXCEPT ![t].state = "request"]
                       /\ UNCHANGED _request_polling_timeout_seconds
                  ELSE Finish(t, "raised")
       IN IF cached # <<>>
          THEN /\ resume(cached[1])
               /\ UNCHANGED <<ms_file, gm_file>>
          ELSE \/ /\ Finish(t, "raised")
                  /\ UNCHANGED <<ms_file, gm_file, _token_resp, _decoded_payload>>
               \/ \E token \in ThreadTokens(now) :
                     /\ resume(token)
                     /\ ms_file' = <<ThreadTokenSet(now)>>
                     /\ gm_file' = <<token>>
    /\ UNCHANGED <<_available_commands, _vehicle_data, fetched, taskFrame>>

\* What the vendor may answer the account request of a coroutine, and its
\* diagnostics POST or status GET (the last with a requestTime 2 s old).
TaskAccountResponses ==
    { [status_code |-> 200,
       json |-> <<[vehicles |-> [vehicle |-> << Vehicle(_vin, <<DiagnosticsCommand>>) >>]]>>],
      [status_code |-> 200, json |-> <<[vehicles |-> [size |-> "0"]]>>],
      [status_code |-> 500, json |-> <<>>] }
TaskCommandResponses(t) ==
    { [status_code |-> 500, json |-> <<>>],
      [status_code |-> 200,
       json |-> <<[commandResponse |-> Envelope("success", "diagnostics", FALSE, <<>>, TRUE)]>>],
      [status_code |-> 200,
       json |-> <<[commandResponse |-> Envelope("inProgress", "diagnostics", TRUE, <<>>, FALSE)]>>],
      [status_code |-> 200,
       json |-> <<[commandResponse |->
                     Envelope("inProgress", "diagnostics", TRUE, <<WellFormed(t - 2)>>, FALSE)]>>] }

\* The response to the request of coroutine t arrives and the coroutine
\* runs to its next await or to the end of its public method.
TaskAnswered(t) ==
    /\ tasks[t].state = "request"
    /\ IF tasks[t].method = "get_account_vehicles"
       THEN \E r \in TaskAccountResponses :
              LET a == AfterResponse(r, DefaultFrame, now) IN
              IF a.do = "return"
              THEN LET p == Parsed(a.value, _available_commands, _vehicle_data)
                   IN /\ _available_commands' = p.commands
                      /\ _vehicle_data' = p.vehicle_data
                      /\ Finish(t, "returned")
              ELSE /\ Finish(t, "raised")
                   /\ UNCHANGED <<_available_commands, _vehicle_data>>
       ELSE /\ \E r \in TaskCommandResponses(now) :
                 LET a == AfterResponse(r, DiagnosticsFrame, now) IN
                 IF a.do = "poll"
                 THEN /\ tasks' = [tasks EXCEPT ![t].state = "poll_sleep"]
                      /\ UNCHANGED _request_polling_timeout_seconds
                 ELSE Finish(t, IF a.do = "return" THEN "returned" ELSE "raised")
            /\ UNCHANGED <<_available_commands, _vehicle_data>>
    /\ UNCHANGED <<ms_file, gm_file, _token_resp, _decoded_payload, fetched, taskFrame>>

\* _check_request_pause of coroutine t ends and the status GET begins
\* (lines 383-393) with its own _ensure_token.
TaskPolled(t) ==
    /\ tasks[t].state = "poll_sleep"
    /\ tasks' = [tasks EXCEPT ![t].state = AwaitedFirst]
    /\ UNCHANGED <<ms_file, gm_file, _token_resp, _decoded_payload,
                   _request_polling_timeout_seconds, _available_commands, _vehicle_data,
                   fetched, taskFrame>>

\* A client as __init__ leaves it, over an empty token directory: no token
\* held, no catalog, the default polling timeout.
ConcurrentInit ==
    /\ Init
    /\ username = <<"a">>
    /\ ms_file = <<>>
    /\ gm_file = <<>>

ConcurrentNext ==
    \E t \in Tasks :
       \/ Task_get_account_vehicles(t)
       \/ Task_diagnostics(t)
       \/ get_gm_api_jwt(t)
       \/ TaskAnswered(t)
       \/ TaskPolled(t)

ConcurrentSpec == ConcurrentInit /\ [][ConcurrentNext]_vars

\* ------------------------------------------------- notions the claims use

\* Lower-casing of one letter and of a string: case folding, stated
\* independently of upper.
LowerChar(c) ==
    CASE c = "A" -> "a"
      [] c = "B" -> "b"
      [] c = "V" -> "v"
      [] c = "W" -> "w"
      [] OTHER -> c
CaseFold(s) == [i \in 1..Len(s) |-> LowerChar(s[i])]

\* A token is usable at t: it has an expires_at more than 300 s after t.
Usable(token, t) == "expires_at" \in DOMAIN token /\ token["expires_at"] > t + 300

\* The identity a decoded identity token states: its name, else its email.
Identity(decoded) ==
    IF "name" \in DOMAIN decoded /\ decoded["name"] # <<>> THEN decoded["name"]
    ELSE IF "email" \in DOMAIN decoded THEN decoded["email"]
    ELSE <<>>

\* The identity token file holds a decodable token of the configured user.
MsFileOwned ==
    /\ ms_file # <<>>
    /\ ~DecodeRaises(ms_file[1])
    /\ CaseFold(Identity(ms_file[1]["access_token"])) = CaseFold(username)

\* The vendor token file holds a decodable token of the configured user.
GmFileOwned ==
    /\ gm_file # <<>>
    /\ ~DecodeRaises(gm_file[1])
    /\ "uid" \in DOMAIN gm_file[1]["access_token"]
    /\ CaseFold(gm_file[1]["access_token"]["uid"]) = CaseFold(username)

\* The vendor tokens the program holds in memory.
HeldTokens ==
    {x[1] : x \in {y \in {_current_gm_token, _token_resp, result} : y # <<>>}}

\* ----------------------------------------------------------------- claims

\* C1: after an exchanged token without vehicles, authenticate() makes
\* exactly one more full re-authentication and then ends: it never enters
\* itself a second time.
C1_OneReauth == depth <= 1

\* C2: a call of authenticate() made while the in-memory vendor token is
\* present and valid sends no network request at all and does not fail,
\* whatever the identity token file holds.
C2_CachedNoNetwork ==
    (pc # "idle" /\ call_cur # <<>> /\ _token_is_valid(call_cur[1], now))
        => (net = {} /\ pc # "error")

\* C3: a token is treated as usable exactly when its expires_at is more
\* than 300 s ahead (strictly; a token without expires_at is not usable),
\* by _token_is_valid for every vendor token held or on disk and by
\* _load_ms_token for the stored identity token of the configured user.
C3_UsableIff ==
    /\ \A T \in HeldTokens \cup {gm_file[i] : i \in 1..Len(gm_file)} :
         _token_is_valid(T, now) <=> Usable(T, now)
    /\ MsFileOwned =>
         (_load_ms_token(ms_file, username, now).kind = "stored"
            <=> Usable(ms_file[1], now))

\* C3 witness: the vendor token just returned sits exactly on the boundary
\* (expires_at = now + 300) while the stored identity token of the user is
\* one second inside it (expires_at = now + 301).
C3_Witness ==
    /\ pc = "done"
    /\ result[1]["expires_at"] = now + 300
    /\ MsFileOwned
    /\ "expires_at" \in DOMAIN ms_file[1]
    /\ ms_file[1]["expires_at"] = now + 301

\* C4: the client sends no vehicle API request while its VIN is absent
\* from the vehs of the token it holds.
C4_NoUnauthorizedRequest ==
    last = "sent" => _validate_vin_authorization(_decoded_payload) = "ok"

\* C5 (as claimed): a call of authenticate() that ends in an error wrote no
\* token file.
C5_NoWriteOnError == pc = "error" => wrote = {}

\* C5 (amended): token files are written during a call only once the
\* identity login or refresh of that call has succeeded, or the vendor
\* token exchange has; a call that ends in an error wrote them only after a
\* successful identity login or refresh.
C5_WritesNeedIdentity ==
    wrote # {} => (got # {} \/ (pc = "done" /\ "exchange" \in net))

\* C5 witness: a call ended in an error after its identity login succeeded
\* and the token files were written.
C5_Witness == pc = "error" /\ wrote # {} /\ "login" \in got

\* C6: every token authenticate() returns is valid at the moment it is
\* returned.
C6_ReturnedValid ==
    [][(pc # "done" /\ pc' = "done") => _token_is_valid(result'[1], now')]_vars

\* C7: authenticate() uses the stored identity token only when its identity
\* equals the username after case folding; on a mismatch it starts a full
\* login; a usable stored token whose identity matches up to letter case
\* is accepted without login.
C7_Ownership ==
    [][(pc = "authenticate" /\ pc' # "authenticate") =>
         /\ (pc' \in {"exchange", "refresh"} => MsFileOwned /\ token_set' = ms_file)
         /\ (ms_file # <<>> /\ ~MsFileOwned => pc' = "discover")
         /\ (MsFileOwned /\ Usable(ms_file[1], now) => pc' \in {"exchange", "done"})
      ]_vars

\* C7 witness: the exchange is running with the stored identity token,
\* whose identity differs from the username in letter case only.
C7_Witness ==
    /\ pc = "exchange"
    /\ token_set = ms_file
    /\ MsFileOwned
    /\ Identity(ms_file[1]["access_token"]) # username
    /\ depth = 0
    /\ got = {}

\* C8: constructing a GMAuth leaves the in-memory token equal to the vendor
\* token on disk when that token decodes to the configured user (uid equal
\* up to letter case) and is valid under the window, and absent otherwise.
C8_LoadOnInit ==
    [][(GMAuth_init \/ (_api_request /\ cpc' = "ensure")) =>
         _current_gm_token' =
            IF GmFileOwned /\ Usable(gm_file[1], now) THEN gm_file ELSE <<>>
      ]_vars

\* C8 witness: a GMAuth constructed after the clock has moved holds the
\* token found on disk, which an earlier exchange put there and whose uid
\* differs from the username in letter case only.
C8_Witness ==
    /\ pc = "idle"
    /\ now > 0
    /\ _current_gm_token # <<>>
    /\ _current_gm_token[1]["expires_at"] = now + 301
    /\ _current_gm_token = gm_file
    /\ _current_gm_token[1]["access_token"]["uid"] # username

\* C9: the client's freshness test and GMAuth's validity test agree on
\* every token: _needs_token_refresh is true exactly when _token_is_valid
\* is false.
C9_TestsAgree ==
    \A T \in HeldTokens : _needs_token_refresh(<<T>>, now) <=> ~_token_is_valid(T, now)

\* C10: once authenticate() has succeeded on an instance, a further call
\* that ends while the returned token is still valid returns that token
\* and sends no token exchange.
C10_Memoized ==
    [][(pc \notin {"idle", "done", "error"} /\ pc' \in {"done", "error"}
          /\ prev_ok # <<>> /\ _token_is_valid(prev_ok[1], now'))
         => (pc' = "done" /\ result' = prev_ok /\ "exchange" \notin net')
      ]_vars

\* C11: when authenticate() gets its vendor token from a token exchange
\* (the token has vehicles), then on return the in-memory token is the
\* returned token, the vendor token file holds that token and the identity
\* token file holds the identity token set that was exchanged.
C11_CachedAndPersisted ==
    [][(pc = "exchange" /\ pc' = "done") =>
         /\ result' # <<>>
         /\ _current_gm_token' = result'
         /\ gm_file' = result'
         /\ ms_file' = token_set
      ]_vars

\* C11 witness: a call returned an exchanged token after one forced
\* re-authentication and a new login; memory and both files hold what the
\* claim says.
C11_Witness ==
    /\ pc = "done"
    /\ "exchange" \in net
    /\ depth = 1
    /\ "login" \in got
    /\ result # <<>>
    /\ _current_gm_token = result
    /\ gm_file = result
    /\ ms_file # <<>>

\* C12: every polling chain ends by the program's own doing: when all
\* responses stay pending or inProgress with a poll URL and no requestTime
\* and max_polls is unset, an internal cap on the number of polls ends the
\* chain, so the interpreter's recursion limit is never what stops it.
C12_HardCap ==
    ~(ppc = "overflow" /\ frame.max_polls = <<>> /\ command_time = <<>>)

\* C13: with max_polls unset no status-poll GET goes out later than the
\* command's original requestTime plus the polling timeout plus one polling
\* interval, whatever requestTime the later responses carry (stated here
\* for a host whose local time is UTC, where the requestTime is read as
\* meant, and for chains in which no request was sent again).
C13_WithinWindow ==
    (/\ frame.max_polls = <<>> /\ utc_offset = 0 /\ retry_sleeps = 0
     /\ last_get_at # <<>> /\ command_time # <<>>)
        => last_get_at[1] <= command_time[1] + _request_polling_timeout_seconds
                                + _request_polling_interval_seconds

\* Status checking is on for the innermost call.
StatusChecking ==
    IF frame.check_request_status # <<>> THEN frame.check_request_status[1]
    ELSE _check_request_status

\* The response r carries a commandResponse envelope.
HasEnvelope(r) ==
    /\ r.status_code = 200
    /\ r.json # <<>>
    /\ IsDict(r.json[1])
    /\ DOMAIN Get(r.json[1], "commandResponse", <<>>) # {}

\* The status and the envelope of a response that carries one.
EnvelopeOf(r) == r.json[1]["commandResponse"]
StatusOf(r) == EnvelopeOf(r)["status"]

\* C14: with status checking on, when the POST and the polls after it
\* answered non-terminal (pending or inProgress with a poll URL, within the
\* timeout) k times and the next response is a success, _api_request
\* returns that response after exactly k polling sleeps and k status GETs
\* (stated here for k >= 1, a host on UTC and a success response whose
\* requestTime, if it has one, is in the format).
C14_ExactPolls ==
    [][(/\ ppc = "request" /\ clean /\ StatusChecking
        /\ utc_offset = 0 /\ sends >= 2
        /\ response' # <<>> /\ HasEnvelope(response'[1])
        /\ StatusOf(response'[1]) = "success"
        /\ "requestTime" \in DOMAIN EnvelopeOf(response'[1])
              => "utc" \in DOMAIN EnvelopeOf(response'[1])["requestTime"])
         => /\ ppc' = "returned"
            /\ outcome' = <<response'[1].json[1]>>
            /\ poll_sleeps' = sends' - 1
            /\ gets' = sends' - 1
      ]_vars

\* The innermost call has just dealt with the last response: it sleeps, or
\* the chain has ended; the clock still reads what it read on arrival.
Handled == ppc \in {"retry_sleep", "poll_sleep", "returned", "raised"}

\* The last response carries an envelope and status checking is on.
Checked == Handled /\ StatusChecking /\ HasEnvelope(response[1])

\* The requestTime of response r is in the format and lies at least the
\* polling timeout before t, both taken as UTC instants.
Expired(r, t) ==
    /\ "requestTime" \in DOMAIN EnvelopeOf(r)
    /\ "utc" \in DOMAIN EnvelopeOf(r)["requestTime"]
    /\ t >= EnvelopeOf(r)["requestTime"]["utc"] + _request_polling_timeout_seconds

\* The innermost call has reached its max_polls.
PollsReached == frame.max_polls # <<>> /\ frame.poll_count >= frame.max_polls[1]

\* C15: a pending or inProgress response whose requestTime lies at least the
\* polling timeout in the past, received before max_polls is reached, makes
\* _api_request fail with the timeout error, without a sleep or another
\* GET.
C15_TimeoutRaised ==
    (/\ Checked
     /\ StatusOf(response[1]) \in {"pending", "inProgress"}
     /\ Expired(response[1], now)
     /\ ~PollsReached)
        => (ppc = "raised"
            /\ outcome = <<CommandTimedOut(_request_polling_timeout_seconds)>>)

\* The response r is an HTTP 500 whose body names vendor error ONS-300,
\* duplicate vehicle request.
DuplicateError(r) ==
    /\ r.status_code = 500
    /\ r.json # <<>>
    /\ "error" \in DOMAIN r.json[1]
    /\ r.json[1]["error"]["code"] = "ONS-300"
    /\ r.json[1]["error"]["description"] = "Duplicate vehicle request"

\* The response r is an error response that does not name ONS-300.
OtherError(r) ==
    /\ r.status_code >= 400
    /\ \/ r.status_code # 500
       \/ r.json = <<>>
       \/ "error" \notin DOMAIN r.json[1]
       \/ r.json[1]["error"]["code"] # "ONS-300"

C17_FailureRaised ==
    (Checked /\ StatusOf(response[1]) = "failure")
        => (ppc = "raised" /\ outcome = <<CommandFailed(response[1].json[1])>>)

\* C18: with status checking on, a response whose status is success is
\* returned to the caller, with no further poll and no error, whether or
\* not it carries a body and however old its requestTime is (stated here
\* for a requestTime that, if present, is in the format).
C18_SuccessReturned ==
    (/\ Checked
     /\ StatusOf(response[1]) = "success"
     /\ "requestTime" \in DOMAIN EnvelopeOf(response[1])
           => "utc" \in DOMAIN EnvelopeOf(response[1])["requestTime"])
        => (ppc = "returned" /\ outcome = <<response[1].json[1]>>)

\* C19: with status checking on, a pending or inProgress response of a
\* connect command is returned to the caller at once: no polling sleep, no
\* status GET and no timeout error, whatever its requestTime (stated here
\* for a requestTime that, if present, is in the format).
C19_ConnectReturned ==
    (/\ Checked
     /\ StatusOf(response[1]) \in {"pending", "inProgress"}
     /\ EnvelopeOf(response[1])["type"] = "connect"
     /\ "requestTime" \in DOMAIN EnvelopeOf(response[1])
           => "utc" \in DOMAIN EnvelopeOf(response[1])["requestTime"])
        => (ppc = "returned" /\ outcome = <<response[1].json[1]>>)

\* C20 (as claimed): with max_polls = N at most N status-poll GETs go out in
\* one chain, and a response that is still pending or inProgress at poll
\* count N is returned to the caller, not an error, even when the timeout
\* is exceeded too.
C20_AtMostNGets ==
    /\ frame.max_polls # <<>> => gets <= frame.max_polls[1]
    /\ (/\ Checked /\ PollsReached
        /\ StatusOf(response[1]) \in {"pending", "inProgress"})
          => (ppc = "returned" /\ outcome = <<response[1].json[1]>>)

\* C20 (amended): with max_polls = N at most N polls are made in one chain,
\* each after one polling sleep; a status GET answered 500 ONS-300 is sent
\* once more, so at most 2N status GETs go out; a response that is still
\* pending or inProgress at poll count N is returned to the caller, not an
\* error, even when the timeout is exceeded too.
C20_AtMostNPolls ==
    /\ frame.max_polls # <<>> =>
          /\ frame.poll_count <= frame.max_polls[1]
          /\ poll_sleeps <= frame.max_polls[1]
          /\ gets <= 2 * frame.max_polls[1]
    /\ (/\ Checked /\ PollsReached
        /\ StatusOf(response[1]) \in {"pending", "inProgress"})
          => (ppc = "returned" /\ outcome = <<response[1].json[1]>>)

\* C20 witness: with max_polls = 2, on a host on UTC, the second poll
\* answered inProgress with a requestTime past the timeout and the response
\* was returned; one status GET had been sent twice.
C20_Witness ==
    /\ ppc = "returned"
    /\ frame.max_polls = <<2>>
    /\ frame.poll_count = 2
    /\ poll_sleeps = 2
    /\ gets = 3
    /\ utc_offset = 0
    /\ HasEnvelope(response[1])
    /\ StatusOf(response[1]) = "inProgress"
    /\ Expired(response[1], now)
    /\ outcome = <<response[1].json[1]>>

\* C26: when the exchanged vendor token has an empty or absent vehs claim,
\* then at the moment the re-authentication starts neither token file
\* exists under its live name, each file that existed has been renamed to
\* its .old name (not deleted, not rewritten), and no vendor token is held
\* in memory.
C26_InvalidatedBeforeReauth ==
    [][(pc = "exchange" /\ pc' = "authenticate") =>
          /\ ms_file' = <<>>
          /\ gm_file' = <<>>
          /\ _current_gm_token' = <<>>
          /\ ms_file # <<>> => "ms" \in renamed'
          /\ gm_file # <<>> => "gm" \in renamed'
          /\ wrote' = wrote]_vars

\* A re-authentication is about to start after both files were renamed.
C26_Witness ==
    /\ pc = "authenticate"
    /\ depth = 1
    /\ renamed = {"ms", "gm"}
    /\ ms_file = <<>>
    /\ gm_file = <<>>
    /\ _current_gm_token = <<>>

\* ---- the login flow

\* The names of the steps taken, and the order the flow has them in.
StepNames == [i \in 1..Len(steps) |-> steps[i].to]
Order ==
    << "discovery", "authorize", "credentials", "mfa_page", "otp", "auth_code",
       "token", "persist" >>
IsPrefix(s, t) == Len(s) <= Len(t) /\ s = SubSeq(t, 1, Len(s))

\* A response shows a page from which both values can be taken.
HasBoth(r) ==
    /\ r.status_code < 400
    /\ ~Not(_regex_extract(r.text, CsrfPattern))
    /\ ~Not(_regex_extract(r.text, TransIdPattern))

\* The text has a query parameter of that name: the name stands right after
\* the ? or an & and right before an =.
HasParameter(text, name) ==
    \E i \in 2..(Len(text) - Len(name)) :
        /\ text[i - 1] \in {"?", "&"}
        /\ SubSeq(text, i, i + Len(name) - 1) = name
        /\ text[i + Len(name)] = "="

\* A response is a redirect whose Location has a parameter named code.
RedirectWithCode(r) ==
    /\ r.status_code \in 300..399
    /\ r.location # <<>>
    /\ HasParameter(r.location[1], <<"c", "o", "d", "e">>)

\* The i-th request of the flow was answered r, and that is a success.
Succeeded(i, r) ==
    CASE Order[i] = "discovery" -> TRUE
      [] Order[i] \in {"authorize", "mfa_page"} -> HasBoth(r)
      [] Order[i] \in {"credentials", "otp"} -> r.status_code < 400
      [] Order[i] = "auth_code" -> auth_code(r) # <<>>
      [] OTHER -> r.ok

\* The flow of this call ended in an error before it saved anything.
Aborted == pc = "error" /\ steps # <<>> /\ steps[Len(steps)].to # "persist"

\* The bytes an unpadded base64url text stands for.
Sextet(c) == (CHOOSE k \in 1..Len(B64Alphabet) : B64Alphabet[k] = c) - 1
RECURSIVE Decoded(_)
Decoded(text) ==
    IF Len(text) >= 4
    THEN LET n == Sextet(text[1]) * 262144 + Sextet(text[2]) * 4096
                    + Sextet(text[3]) * 64 + Sextet(text[4])
         IN << n \div 65536, (n \div 256) % 256, n % 256 >>
                \o Decoded(SubSeq(text, 5, Len(text)))
    ELSE IF Len(text) = 3
    THEN LET n == (Sextet(text[1]) * 4096 + Sextet(text[2]) * 64 + Sextet(text[3])) \div 4
         IN << n \div 256, n % 256 >>
    ELSE IF Len(text) = 2
    THEN << (Sextet(text[1]) * 64 + Sextet(text[2])) \div 16 >>
    ELSE <<>>
Unpadded(text) == \A i \in 1..Len(text) : text[i] # "="

\* C25: the code_challenge of the authorization request is the unpadded
\* base64url text of the SHA-256 digest of the code_verifier generated in
\* the same call, and the token request of the flow carries that same
\* code_verifier together with the code its own redirect delivered.
C25_Pkce ==
    /\ Len(steps) >= 2 =>
          /\ Unpadded(steps[2].code_challenge)
          /\ steps[2].code_challenge_method = "S256"
          /\ code_verifier # <<>> =>
                Decoded(steps[2].code_challenge) = sha256(encode(code_verifier[1]))
    /\ Len(steps) >= 7 =>
          /\ Unpadded(steps[2].code_challenge)
          /\ Decoded(steps[2].code_challenge) = sha256(encode(steps[7].code_verifier))
          /\ pc = "ms_token" => steps[7].code_verifier = code_verifier[1]
          /\ <<steps[7].code>> = _regex_extract(received[6].location[1], CodePattern)

\* A second flow of one call has posted its code and verifier.
C25_Witness ==
    /\ pc = "ms_token"
    /\ depth = 1
    /\ Len(steps) = 7
    /\ Len(code_verifier[1]) = 3

\* C27: the steps of the login flow are taken in the one order, each after
\* the one before it was answered with success, none twice; a step that
\* fails ends the call in an error with no later step taken and no token
\* file written.
C27_Linear ==
    /\ IsPrefix(StepNames, Order)
    /\ \A i \in 1..(Len(steps) - 1) : i <= Len(received) /\ Succeeded(i, received[i])
    /\ \A i \in 1..Len(received) :
          ~Succeeded(i, received[i]) => Aborted /\ Len(steps) = i
    /\ Aborted => ms_file = <<>> /\ gm_file = <<>> /\ result = <<>>

\* A flow failed at its OTP POST.
C27_Witness ==
    /\ Aborted
    /\ Len(steps) = 5
    /\ received[5].status_code = 400

\* C28: the credential POST carries the csrf and transaction id of the
\* authorization page, the OTP POST and the authorization-code GET carry
\* the ones of the MFA page of the same flow, and an MFA page that lacks
\* either ends the flow with no OTP posted.
C28_CsrfPerStep ==
    /\ Len(steps) >= 3 =>
          /\ <<steps[3].csrf>> = _regex_extract(received[2].text, CsrfPattern)
          /\ <<steps[3].tx>> = _regex_extract(received[2].text, TransIdPattern)
    /\ \A i \in {5, 6} : Len(steps) >= i =>
          /\ <<steps[i].csrf>> = _regex_extract(received[4].text, CsrfPattern)
          /\ <<steps[i].tx>> = _regex_extract(received[4].text, TransIdPattern)
    /\ (Len(received) >= 4 /\ ~HasBoth(received[4])) =>
          /\ Aborted
          /\ Len(steps) = 4

\* The authorization-code GET went out after an MFA page whose values
\* differ from those of the authorization page.
C28_Witness ==
    /\ pc = "auth_code"
    /\ steps[3].csrf = <<"1">> /\ steps[3].tx = <<"3">>
    /\ steps[6].csrf = <<"2">> /\ steps[6].tx = <<"4">>

\* The discovery response is a failure: no response, an error status, a
\* body that is no JSON document.
DiscoveryFailed(d) ==
    \/ "network_error" \in DOMAIN d
    \/ d.status_code >= 400
    \/ d.json = <<>>
    \/ "list" \in DOMAIN d.json[1]

\* C29: whatever the discovery request comes to, the flow goes on to the
\* authorization request; after a failed discovery both endpoints are the
\* hard-coded ones, and after a document each endpoint is the document's
\* when it names one and the hard-coded one when it does not.
C29_DiscoveryFallback ==
    received # <<>> =>
       LET d == received[1] IN
       /\ Len(steps) >= 2
       /\ pc = "error" => Len(received) >= 2
       /\ DiscoveryFailed(d) =>
             /\ steps[2].url = FALLBACK_AUTHORIZATION_ENDPOINT
             /\ _token_endpoint = FALLBACK_TOKEN_ENDPOINT
       /\ ~DiscoveryFailed(d) =>
             /\ steps[2].url =
                   IF "authorization_endpoint" \in DOMAIN d.json[1]
                   THEN d.json[1]["authorization_endpoint"]
                   ELSE FALLBACK_AUTHORIZATION_ENDPOINT
             /\ _token_endpoint =
                   IF "token_endpoint" \in DOMAIN d.json[1]
                   THEN d.json[1]["token_endpoint"]
                   ELSE FALLBACK_TOKEN_ENDPOINT
       /\ Len(steps) >= 7 => steps[7].url = _token_endpoint

\* A flow got its tokens from the discovered token endpoint after a
\* document that names no authorization endpoint.
C29_Witness ==
    /\ Len(steps) = 8
    /\ ~DiscoveryFailed(received[1])
    /\ steps[2].url = FALLBACK_AUTHORIZATION_ENDPOINT
    /\ steps[7].url = DiscoveredTokenEndpoint

\* C30: the code is posted to the token endpoint only after a redirect
\* whose Location has a code parameter; a response that is no redirect, has
\* no Location or has a Location without a code parameter ends the call in
\* an error with no token request sent and nothing saved.
C30_CodeOrFatal ==
    Len(received) >= 6 =>
       LET r == received[6] IN
       /\ Len(steps) >= 7 => RedirectWithCode(r)
       /\ ~RedirectWithCode(r) =>
             /\ Aborted
             /\ Len(steps) = 6
             /\ ms_file = <<>>
             /\ gm_file = <<>>

\* ---- the command catalog

\* The vehicle entries of a response, none when it has no list of them.
VehiclesOf(response_data) ==
    IF /\ IsDict(response_data)
       /\ "vehicles" \in DOMAIN response_data
       /\ "vehicle" \in DOMAIN response_data["vehicles"]
    THEN LET list == response_data["vehicles"]["vehicle"]
         IN { list[i] : i \in 1..Len(list) }
    ELSE {}

\* The entries of a response for the configured VIN.
EntriesOfVin(response_data) ==
    { v \in VehiclesOf(response_data) : "vin" \in DOMAIN v /\ v["vin"] = _vin }

\* The command names a vehicle entry lists.
NamesListed(vehicle) ==
    IF "commands" \in DOMAIN vehicle /\ "command" \in DOMAIN vehicle["commands"]
    THEN LET list == vehicle["commands"]["command"]
         IN { list[i]["name"] : i \in { j \in 1..Len(list) : "name" \in DOMAIN list[j] } }
    ELSE {}

\* get_account_vehicles() has just returned its response.
Fetched == op.method = "get_account_vehicles" /\ op.state = "returned"

\* The step is a call of public method m (no call is running before it).
CallOf(m) == op.state # "running" /\ op'.method = m /\ op'.state # "none"

\* C21: execute_command with a name that is not in the catalog raises the
\* command-unavailable error and changes nothing: no authentication, no
\* request, no use of the fallback URL; before the catalog was fetched that
\* is every call of it.
C21_UnavailableNoEffect ==
    [][/\ (CallOf("execute_command") /\ ~is_command_available(op'.command_name)) =>
             /\ op'.state = "ValueError"
             /\ sent' = <<>>
             /\ UNCHANGED <<authVars, ghostVars, flowVars, _token_resp, _decoded_payload,
                            cpc, last, pollVars, _available_commands, _vehicle_data, fetched>>
       /\ (CallOf("execute_command") /\ ~fetched) => op'.state = "ValueError"
       /\ (CallOf("execute_command") /\ op'.state = "running") =>
             sent'[1].url = ListedUrl(op'.command_name)]_vars

\* After a fetch that stored commands and a chain of requests, a command
\* the catalog lacks was refused.
C21_Witness ==
    /\ op.method = "execute_command"
    /\ op.state = "ValueError"
    /\ op.command_name = "lockDoor"
    /\ is_command_available("start")
    /\ sends = 2

\* C22: no command is available before get_account_vehicles() is called,
\* and after a fetch whose response has the configured VIN the available
\* commands are exactly the names that response lists for the VIN.
C22_CatalogIsListed ==
    /\ ~fetched => \A n \in CommandNames : ~is_command_available(n)
    /\ (Fetched /\ EntriesOfVin(outcome[1]) # {}) =>
          \A n \in CommandNames :
             is_command_available(n)
                <=> \E v \in EntriesOfVin(outcome[1]) : n \in NamesListed(v)

\* C23: after a fetch whose response has no entry for the configured VIN
\* the catalog is empty, whatever an earlier fetch stored.
C23_CatalogBuiltFresh ==
    (Fetched /\ EntriesOfVin(outcome[1]) = {}) =>
       \A n \in CommandNames : ~is_command_available(n)

\* The items of the body diagnostics() handed to _api_request.
ItemsSent == sent[1].json_body[1]["diagnosticsRequest"]["diagnosticItem"]

\* The set of the items of a list.
Range(list) == { list[i] : i \in 1..Len(list) }

\* C24: every item diagnostics() sends is one the vehicle advertises; of
\* the items asked for exactly the advertised ones are sent; and when none
\* of them is advertised, or the list asked for is empty, diagnostics()
\* raises and hands no request to _api_request.
C24_OnlySupportedItems ==
    op.method = "diagnostics" =>
       LET advertised == Range(get_supported_diagnostics)
           asked == op.options # <<>>
           wanted == IF asked THEN Range(op.options[1]["diagnostic_item"]) ELSE {}
       IN /\ sent # <<>> =>
               /\ Range(ItemsSent) \subseteq advertised
               /\ asked => Range(ItemsSent) = wanted \cap advertised
          /\ (asked /\ wanted \cap advertised = {}) =>
               /\ op.state = "ValueError"
               /\ sent = <<>>

\* A request for one advertised and one unknown item went out with the
\* advertised one alone.
C24_Witness ==
    /\ op.method = "diagnostics"
    /\ op.options = <<[diagnostic_item |-> <<"tire", "odo">>]>>
    /\ sent # <<>>
    /\ ItemsSent = <<"odo">>

\* C31: when the stored identity token belongs to the configured user but
\* has expired, authenticate() tries the refresh grant if the token set has
\* a refresh token and starts a full login if it has none; a refresh that
\* succeeds leaves the refreshed token set in the identity token file and
\* hands it to the token exchange, with no login request sent; a refresh
\* that fails starts a full login, and the call does not fail.
C31_RefreshOrLogin ==
    [][/\ (pc = "authenticate" /\ pc' # "authenticate"
             /\ MsFileOwned /\ ~Usable(ms_file[1], now)) =>
            IF "refresh_token" \in DOMAIN ms_file[1] /\ ms_file[1]["refresh_token"] # ""
            THEN pc' = "refresh" /\ "login" \notin net'
            ELSE pc' = "discover" /\ "login" \in net'
       /\ (pc = "refresh" /\ pc' # "refresh") =>
            \/ /\ pc' \in {"exchange", "done"}
               /\ "refreshed" \in got'
               /\ "login" \notin net'
               /\ "ms" \in wrote'
               /\ ms_file' # <<>>
               /\ pc' = "exchange" => token_set' = ms_file'
            \/ /\ pc' = "discover"
               /\ "login" \in net'
               /\ ms_file' = ms_file
      ]_vars

\* C31 witness: the token exchange is running with the token set a refresh
\* grant has just returned, which is the one in the identity token file; no
\* login request was sent.
C31_Witness ==
    /\ pc = "exchange"
    /\ "refreshed" \in got
    /\ "login" \notin net
    /\ token_set = ms_file
    /\ depth = 0

\* C32: loading a stored token never raises: whatever the token files hold
\* (no file, not JSON, no access_token, an undecodable JWT, another owner,
\* an expired token), _load_ms_token comes back with False, with the stored
\* token set or goes on to the refresh grant, _load_current_gm_api_token
\* leaves the in-memory token absent or sets it to the token of the file,
\* and a call of authenticate() that ends in an error has got as far as a
\* network request.
C32_LoadNeverRaises ==
    /\ LET r == _load_ms_token(ms_file, username, now) IN
         /\ r.kind \in {"false", "stored", "refresh"}
         /\ r.kind # "false" => (ms_file # <<>> /\ r.token = ms_file[1])
    /\ _load_current_gm_api_token(gm_file, username, now) \in {<<>>, gm_file}
    /\ pc = "error" => net # {}
    /\ (pc = "idle" /\ cpc = "idle") => _current_gm_token \in {<<>>, gm_file}

\* C32 witness: a GMAuth was constructed and authenticate() called over two
\* token files that do not decode; the call has gone on to the full login
\* with no token in memory.
C32_Witness ==
    /\ ms_file # <<>> /\ DecodeRaises(ms_file[1])
    /\ gm_file # <<>> /\ DecodeRaises(gm_file[1])
    /\ pc = "discover"
    /\ depth = 0
    /\ _current_gm_token = <<>>

\* C34 (as claimed): within one chain a status GET goes out only when the
\* request before it has been answered and one polling interval has passed
\* since that answer arrived (a call sleeps from the moment the response
\* arrives, so the clock of the step is the time of the answer).
C34_IntervalBeforeEachGet ==
    [][gets' > gets =>
         /\ ppc \in {"poll_sleep", "retry_sleep"}
         /\ response # <<>>
         /\ now' >= now + _request_polling_interval_seconds
      ]_vars

\* C34 (amended): within one chain a status GET goes out only when the
\* request before it has been answered, so no two requests of a chain are
\* in flight together, and after a pause that starts at that answer: one
\* polling interval before a poll, the retry delay before a GET that is
\* sent again because the one before it was answered 500 ONS-300.
C34_Sequential ==
    [][gets' > gets =>
         /\ ppc \in {"poll_sleep", "retry_sleep"}
         /\ response # <<>>
         /\ ppc = "poll_sleep" =>
              /\ now' = now + _request_polling_interval_seconds
              /\ frame'.poll_count = frame.poll_count + 1
         /\ ppc = "retry_sleep" =>
              /\ now' = now + retry_delay
              /\ frame.is_status_check
              /\ response[1].status_code = 500
              /\ frame'.poll_count = frame.poll_count
      ]_vars

\* C34 witness: with an interval of 3 s the first status GET went out 3 s
\* after the POST was answered, was answered 500 ONS-300 and has been sent
\* again 2 s later.
C34_Witness ==
    /\ ppc = "request"
    /\ _request_polling_interval_seconds = 3
    /\ gets = 2
    /\ poll_sleeps = 1
    /\ retry_sleeps = 1
    /\ frame.is_status_check
    /\ last_get_at = <<5>>

\* The entries of a response whose vin is the configured VIN up to letter
\* case.
EntriesOfVinAnyCase(response_data) ==
    { v \in VehiclesOf(response_data) :
        "vin" \in DOMAIN v /\ CaseFold(v["vin"]) = CaseFold(ConfigVin) }

\* The names of the commands a vehicle entry lists with a url.
NamesWithUrl(vehicle) ==
    IF "commands" \in DOMAIN vehicle /\ "command" \in DOMAIN vehicle["commands"]
    THEN LET list == vehicle["commands"]["command"]
         IN { list[i]["name"] : i \in { j \in 1..Len(list) :
                                          {"name", "url"} \subseteq DOMAIN list[j] } }
    ELSE {}

\* C35: get_account_vehicles() matches the configured VIN against the
\* entries of the response without regard to letter case: after a fetch
\* every command that an entry with the configured VIN in any letter case
\* lists is available.
C35_CaseInsensitiveVin ==
    Fetched =>
       \A v \in EntriesOfVinAnyCase(outcome[1]) :
          \A n \in NamesWithUrl(v) : is_command_available(n)

\* C36: the polling timeout test reads requestTime as a UTC instant: on a
\* host at any offset from UTC, a pending or inProgress response with a
\* requestTime in the format, received before max_polls is reached in a
\* chain without a re-sent request, ends the call with the timeout error
\* exactly when the clock (UTC) reads at least requestTime (UTC) plus the
\* polling timeout.
C36_TimeoutInUtc ==
    (/\ Checked
     /\ StatusOf(response[1]) \in {"pending", "inProgress"}
     /\ "requestTime" \in DOMAIN EnvelopeOf(response[1])
     /\ "utc" \in DOMAIN EnvelopeOf(response[1])["requestTime"]
     /\ ~PollsReached
     /\ retry_sleeps = 0)
        => ((ppc = "raised"
               /\ outcome = <<CommandTimedOut(_request_polling_timeout_seconds)>>)
            <=> Expired(response[1], now))

\* C38: what a re-sent request raises reaches the caller unchanged: when a
\* request of the chain was answered 500 ONS-300 and sent again, and the
\* chain then ends on a response with status failure, or (on a host on
\* UTC) on a pending or inProgress response that has timed out, the caller
\* gets the command-failed error or the timeout error, not an HTTP-status
\* error for the 500 response.
C38_RetryErrorUnchanged ==
    (ppc = "raised" /\ retry_sleeps > 0 /\ Checked) =>
       /\ StatusOf(response[1]) = "failure" =>
             outcome = <<CommandFailed(response[1].json[1])>>
       /\ (/\ StatusOf(response[1]) \in {"pending", "inProgress"}
           /\ utc_offset = 0
           /\ Expired(response[1], now)
           /\ ~PollsReached) =>
             outcome = <<CommandTimedOut(_request_polling_timeout_seconds)>>

\* The vendor token decodes to a vehs claim that is present and not empty.
HasVehicles(gm_token) ==
    /\ ~DecodeRaises(gm_token)
    /\ "vehs" \in DOMAIN gm_token["access_token"]
    /\ gm_token["access_token"]["vehs"] # <<>>

\* C39: a vendor token obtained by token exchange whose vehs claim is empty
\* or absent is never stored: a token that a running call of authenticate()
\* puts in memory has vehicles (a GMAuth under construction takes the token
\* of the file), every vendor token file the process writes holds a token
\* with vehicles or the token that was in memory before (the one loaded
\* from the file), and the token authenticate() returns from an exchange
\* has vehicles.
C39_EmptyVehsNeverStored ==
    [][/\ (_current_gm_token' # _current_gm_token /\ _current_gm_token' # <<>>) =>
             (pc \in {"idle", "done", "error"} \/ HasVehicles(_current_gm_token'[1]))
       /\ (gm_file' # gm_file /\ gm_file' # <<>>) =>
             (HasVehicles(gm_file'[1]) \/ gm_file' = _current_gm_token)
       /\ (pc = "exchange" /\ pc' = "done") =>
             (HasVehicles(result'[1]) /\ _current_gm_token' = result')
       /\ (pc = "exchange" /\ pc' = "authenticate") =>
             (_current_gm_token' = <<>> /\ gm_file' = <<>> /\ result' = result)
      ]_vars

\* C39 witness: an exchange answered a token without vehicles, the files
\* were set aside, and after a new login the next exchange returned a token
\* with vehicles, which is the one in memory and in the vendor token file.
C39_Witness ==
    /\ pc = "done"
    /\ depth = 1
    /\ "ms" \in renamed
    /\ "exchange" \in net
    /\ HasVehicles(result[1])
    /\ _current_gm_token = result
    /\ gm_file = result

\* C40: after an exchanged token without vehicles, the identity token of
\* the next exchange of that call comes from a new full login: the file of
\* the stale identity token is gone when authenticate() is entered again,
\* so that call neither takes a stored token nor sends a refresh grant but
\* starts the login, and the next exchange is sent only on the token
\* response of that login, with the token set just written to the file.
C40_FreshLoginAfterEmptyVehs ==
    [][/\ (pc = "exchange" /\ pc' = "authenticate") =>
             (depth' = depth + 1 /\ ms_file' = <<>> /\ token_set' = <<>>)
       /\ depth >= 1 =>
             /\ pc = "authenticate" => (ms_file = <<>> /\ pc' \in {"authenticate", "discover"})
             /\ pc' # "refresh"
             /\ "refresh" \in net' => "refresh" \in net
             /\ (pc # "exchange" /\ pc' = "exchange") =>
                   /\ pc = "ms_token"
                   /\ "login" \in got'
                   /\ token_set' = ms_file'
                   /\ "ms" \in wrote'
      ]_vars

\* C40 witness: the stored identity token was refreshed and exchanged for a
\* token without vehicles; the files were renamed, a full login followed
\* and its token set is being exchanged.
C40_Witness ==
    /\ pc = "exchange"
    /\ depth = 1
    /\ got = {"refreshed", "login"}
    /\ "ms" \in renamed
    /\ token_set = ms_file

\* The coroutines whose authentication is in progress.
Authenticating == { t \in Tasks : tasks[t].state = "ensure" }

\* C33: for one client no two authentication flows are in progress at the
\* same time: of the requests issued while the token needs refresh at most
\* one runs the authentication.
C33_OneAuthentication == Cardinality(Authenticating) <= 1

\* C37: diagnostics() leaves the polling timeout as it was constructed:
\* whenever no diagnostics() call is running on the client, after calls
\* that returned or raised and that may have overlapped, the client's
\* polling timeout is the constructor's (90 s on this client).
C37_TimeoutRestored ==
    (\A t \in Tasks : tasks[t].method = "diagnostics" => ~Running(t))
        => _request_polling_timeout_seconds = 90

=============================================================================
